---- MODULE Spec2Model ----
(***************************************************************************)
(* Model of the document-processing front end:                             *)
(*   - lib/dataTransform.ts  (transformApiDataToFormData,                  *)
(*                            aggregateExtractedData)                      *)
(*   - lib/fileAnalysis.ts   (generateFileFingerprint, analyzeFile)        *)
(*   - hooks/useDocuments.ts (the useDocuments hook)                       *)
(*                                                                         *)
(* JavaScript strings are sequences of one-character strings, so that      *)
(* split, toString and toFixed are computed character by character.        *)
(* Fractional numbers (weights, prices) are exact decimals counted in      *)
(* thousandths.                                                            *)
(***************************************************************************)
EXTENDS Integers, Sequences, FiniteSets, TLC

\* ------------------------------------------------------------------ bounds

\* files handed to handleFileSelect in one selection
MaxSelected == 3

\* calls of loadDocument by one DocumentViewer
MaxLoads == 4

\* values the file prop of one ExcelPreview takes
MaxFiles == 3

\* calls of saveChanges that reach localStorage
MaxSaves == 11

\* input changes in one ShipmentForm
MaxEdits == 3

\* longest extractedDataArray handed to aggregateExtractedData
MaxSets == 2

\* calls of the hook's operations (navigation aside) in one run
MaxOps == 3

\* ----------------------------------------------------------------- strings

EmptyStr == << >>

DigitChars == <<"0", "1", "2", "3", "4", "5", "6", "7", "8", "9">>

IsDigit(c) == \E i \in 1..10 : DigitChars[i] = c

DigitVal(c) == (CHOOSE i \in 1..10 : DigitChars[i] = c) - 1

\* Number.prototype.toString for a non-negative integer
RECURSIVE NatToString(_)
NatToString(n) ==
    IF n < 10 THEN <<DigitChars[n + 1]>>
    ELSE NatToString(n \div 10) \o <<DigitChars[(n % 10) + 1]>>

\* Number.prototype.toString for an integer
NumberToString(n) ==
    IF n < 0 THEN <<"-">> \o NatToString(0 - n) ELSE NatToString(n)

\* s.split('T')[0]: the characters before the first 'T', all of s without one
SplitT0(s) ==
    LET ts == {i \in 1..Len(s) : s[i] = "T"}
    IN  IF ts = {} THEN s
        ELSE SubSeq(s, 1, (CHOOSE i \in ts : \A j \in ts : i <= j) - 1)

\* (num / den).toFixed(2) for the exact quotient num / den, den > 0:
\* the sign is split off, n is the integer nearest to 100 * |x| (the larger one
\* on a tie), printed with at least three digits and a point before the last two
ToFixed2(num, den) ==
    LET neg    == num < 0
        a      == IF neg THEN 0 - num ELSE num
        n      == (200 * a + den) \div (2 * den)
        digits == NatToString(n)
        padded == IF Len(digits) >= 3 THEN digits
                  ELSE IF Len(digits) = 2 THEN <<"0">> \o digits
                  ELSE <<"0", "0">> \o digits
        k      == Len(padded)
    IN  (IF neg THEN <<"-">> ELSE << >>)
        \o SubSeq(padded, 1, k - 2) \o <<".">> \o SubSeq(padded, k - 1, k)

\* ------------------------------------------------------------ ExtractedData

\* an optional string of ExtractedData: null, undefined (key absent) or a string
NullStr == [k |-> "null", v |-> EmptyStr]
UndefStr == [k |-> "undefined", v |-> EmptyStr]
Str(s) == [k |-> "string", v |-> s]

\* an optional number of ExtractedData
NullNum == [k |-> "null", v |-> 0]
UndefNum == [k |-> "undefined", v |-> 0]
Num(n) == [k |-> "number", v |-> n]

\* JavaScript truthiness of (string | null | undefined): a non-empty string
Truthy(x) == x.k = "string" /\ x.v # EmptyStr

\* x !== null && x !== undefined
Present(x) == x.k # "null" /\ x.k # "undefined"

\* x || ''
OrEmpty(x) == IF Truthy(x) THEN x.v ELSE EmptyStr

\* an element of (ExtractedData | null)[]; tag "undefined" is an index past the
\* end of the response array
ExtractedData(bol, cn, name, cons, date, items, weight, price) ==
    [tag |-> "data",
     bill_of_lading_number |-> bol, container_number |-> cn,
     consignee_name |-> name, consignee |-> cons, date |-> date,
     line_items_count |-> items, average_gross_weight |-> weight,
     average_price |-> price]

BlankData(tag) ==
    [tag |-> tag,
     bill_of_lading_number |-> NullStr, container_number |-> NullStr,
     consignee_name |-> NullStr, consignee |-> NullStr, date |-> NullStr,
     line_items_count |-> NullNum, average_gross_weight |-> NullNum,
     average_price |-> NullNum]

NullData == BlankData("null")

UndefinedData == BlankData("undefined")

\* ---------------------------------------------------------- DocumentFormData

EmptyFormData ==
    [billOfLadingNumber |-> EmptyStr, containerNumber |-> EmptyStr,
     consigneeName |-> EmptyStr, consigneeAddress |-> EmptyStr,
     date |-> EmptyStr, lineItemsCount |-> EmptyStr,
     averageGrossWeight |-> EmptyStr, averagePrice |-> EmptyStr]

\* x?.toString() || '' for an integer-valued number
CountToForm(x) == IF Present(x) THEN NumberToString(x.v) ELSE EmptyStr

\* JavaScript prints a number with the shortest decimal that reads back as it:
\* thousandths m print as the integer part, then the fraction without its
\* trailing zeros
MilliToString(m) ==
    LET a    == IF m < 0 THEN 0 - m ELSE m
        frac == a % 1000
        f3   == <<DigitChars[(frac \div 100) + 1], DigitChars[((frac \div 10) % 10) + 1],
                  DigitChars[(frac % 10) + 1]>>
        cut  == IF frac = 0 THEN 0
                ELSE IF frac % 100 = 0 THEN 1
                ELSE IF frac % 10 = 0 THEN 2 ELSE 3
    IN  (IF m < 0 THEN <<"-">> ELSE << >>) \o NatToString(a \div 1000)
        \o (IF cut = 0 THEN << >> ELSE <<".">> \o SubSeq(f3, 1, cut))

MilliToForm(x) == IF Present(x) THEN MilliToString(x.v) ELSE EmptyStr

transformApiDataToFormData(apiData) ==
    [billOfLadingNumber |-> OrEmpty(apiData.bill_of_lading_number),
     containerNumber    |-> OrEmpty(apiData.container_number),
     consigneeName      |-> OrEmpty(apiData.consignee_name),
     consigneeAddress   |-> OrEmpty(apiData.consignee),
     date               |-> IF Truthy(apiData.date) THEN SplitT0(apiData.date.v)
                            ELSE EmptyStr,
     lineItemsCount     |-> CountToForm(apiData.line_items_count),
     averageGrossWeight |-> MilliToForm(apiData.average_gross_weight),
     averagePrice       |-> MilliToForm(apiData.average_price)]

\* extractedDataArray.filter(data => data !== null)
\* NaN, the number parseInt and parseFloat give for what they cannot read
NaNNum == [k |-> "NaN", v |-> 0]

\* a string without its leading blanks
RECURSIVE TrimStart(_)
TrimStart(s) ==
    IF s # << >> /\ s[1] = " " THEN TrimStart(Tail(s)) ELSE s

\* the longest prefix of s made of decimal digits
RECURSIVE LeadingDigits(_)
LeadingDigits(s) ==
    IF s # << >> /\ IsDigit(s[1]) THEN <<s[1]>> \o LeadingDigits(Tail(s)) ELSE << >>

\* the number a string of decimal digits is read as (0 for none)
RECURSIVE ParseDigits(_)
ParseDigits(s) ==
    IF s = << >> THEN 0
    ELSE 10 * ParseDigits(SubSeq(s, 1, Len(s) - 1)) + DigitVal(s[Len(s)])

\* the sign a numeral starts with (1 or -1) and the numeral without it
Signed(s) ==
    IF s # << >> /\ s[1] = "-" THEN [sign |-> -1, rest |-> Tail(s)]
    ELSE IF s # << >> /\ s[1] = "+" THEN [sign |-> 1, rest |-> Tail(s)]
    ELSE [sign |-> 1, rest |-> s]

RECURSIVE Pow10(_)
Pow10(n) == IF n = 0 THEN 1 ELSE 10 * Pow10(n - 1)

\* parseInt(s) for a string that does not start with 0x: blanks, a sign, and
\* the digits up to the first character that is none
ParseInt(s) ==
    LET u == Signed(TrimStart(s))
        d == LeadingDigits(u.rest)
    IN  IF d = << >> THEN NaNNum ELSE Num(u.sign * ParseDigits(d))

\* parseFloat(s), in thousandths, for a string other than "Infinity": blanks, a
\* sign, digits, a fraction, an exponent; the places past the thousandths of
\* the strings used here are zeros
ParseFloat(s) ==
    LET u     == Signed(TrimStart(s))
        int   == LeadingDigits(u.rest)
        r1    == SubSeq(u.rest, Len(int) + 1, Len(u.rest))
        dot   == r1 # << >> /\ r1[1] = "."
        frac  == IF dot THEN LeadingDigits(Tail(r1)) ELSE << >>
        r2    == IF dot THEN SubSeq(r1, Len(frac) + 2, Len(r1)) ELSE r1
        e     == IF r2 # << >> /\ r2[1] \in {"e", "E"}
                 THEN Signed(Tail(r2)) ELSE [sign |-> 1, rest |-> << >>]
        ed    == LeadingDigits(e.rest)
        scale == e.sign * ParseDigits(ed) - Len(frac) + 3
        m     == ParseDigits(int \o frac)
    IN  IF int = << >> /\ frac = << >> THEN NaNNum
        ELSE Num(u.sign * (IF scale >= 0 THEN m * Pow10(scale)
                                         ELSE m \div Pow10(0 - scale)))

\* formData.<text field> || null
OrNull(x) == IF x # EmptyStr THEN Str(x) ELSE NullStr

\* transformFormDataToApiData with ?? in the place of ||
transformFormDataToApiDataKeepEmpty(formData) ==
    ExtractedData(
        Str(formData.billOfLadingNumber),
        Str(formData.containerNumber),
        Str(formData.consigneeName),
        Str(formData.consigneeAddress),
        Str(formData.date),
        IF formData.lineItemsCount # EmptyStr
            THEN ParseInt(formData.lineItemsCount) ELSE NullNum,
        IF formData.averageGrossWeight # EmptyStr
            THEN ParseFloat(formData.averageGrossWeight) ELSE NullNum,
        IF formData.averagePrice # EmptyStr
            THEN ParseFloat(formData.averagePrice) ELSE NullNum)

transformFormDataToApiData(formData) ==
    ExtractedData(
        OrNull(formData.billOfLadingNumber),
        OrNull(formData.containerNumber),
        OrNull(formData.consigneeName),
        OrNull(formData.consigneeAddress),
        OrNull(formData.date),
        IF formData.lineItemsCount # EmptyStr
            THEN ParseInt(formData.lineItemsCount) ELSE NullNum,
        IF formData.averageGrossWeight # EmptyStr
            THEN ParseFloat(formData.averageGrossWeight) ELSE NullNum,
        IF formData.averagePrice # EmptyStr
            THEN ParseFloat(formData.averagePrice) ELSE NullNum)

ValidData(extractedDataArray) ==
    SelectSeq(extractedDataArray, LAMBDA d : d.tag # "null")

\* TextStep with the guard on the value already taken left out of the container
\* number: the last FieldSet wins
TextStepLastWins(aggregated, data) ==
    [aggregated EXCEPT
        !.billOfLadingNumber =
            IF @ = EmptyStr /\ Truthy(data.bill_of_lading_number)
            THEN data.bill_of_lading_number.v ELSE @,
        !.containerNumber =
            IF Truthy(data.container_number)
            THEN data.container_number.v ELSE @,
        !.consigneeName =
            IF @ = EmptyStr /\ Truthy(data.consignee_name)
            THEN data.consignee_name.v ELSE @,
        !.consigneeAddress =
            IF @ = EmptyStr /\ Truthy(data.consignee)
            THEN data.consignee.v ELSE @,
        !.date =
            IF @ = EmptyStr /\ Truthy(data.date)
            THEN SplitT0(data.date.v) ELSE @]

\* TextStep adding up the bill-of-lading numbers as the numeric loop adds up
\* its totals
TextStepAccumulate(aggregated, data) ==
    [aggregated EXCEPT
        !.billOfLadingNumber =
            IF Truthy(data.bill_of_lading_number)
            THEN @ \o data.bill_of_lading_number.v ELSE @,
        !.containerNumber =
            IF @ = EmptyStr /\ Truthy(data.container_number)
            THEN data.container_number.v ELSE @,
        !.consigneeName =
            IF @ = EmptyStr /\ Truthy(data.consignee_name)
            THEN data.consignee_name.v ELSE @,
        !.consigneeAddress =
            IF @ = EmptyStr /\ Truthy(data.consignee)
            THEN data.consignee.v ELSE @,
        !.date =
            IF @ = EmptyStr /\ Truthy(data.date)
            THEN SplitT0(data.date.v) ELSE @]

\* TextStep storing the date as it comes, without split('T')[0]
TextStepNoSplit(aggregated, data) ==
    [aggregated EXCEPT
        !.billOfLadingNumber =
            IF @ = EmptyStr /\ Truthy(data.bill_of_lading_number)
            THEN data.bill_of_lading_number.v ELSE @,
        !.containerNumber =
            IF @ = EmptyStr /\ Truthy(data.container_number)
            THEN data.container_number.v ELSE @,
        !.consigneeName =
            IF @ = EmptyStr /\ Truthy(data.consignee_name)
            THEN data.consignee_name.v ELSE @,
        !.consigneeAddress =
            IF @ = EmptyStr /\ Truthy(data.consignee)
            THEN data.consignee.v ELSE @,
        !.date =
            IF @ = EmptyStr /\ Truthy(data.date)
            THEN data.date.v ELSE @]

\* one pass of the loop "Take first non-empty value for text fields"
TextStep(aggregated, data) ==
    [aggregated EXCEPT
        !.billOfLadingNumber =
            IF @ = EmptyStr /\ Truthy(data.bill_of_lading_number)
            THEN data.bill_of_lading_number.v ELSE @,
        !.containerNumber =
            IF @ = EmptyStr /\ Truthy(data.container_number)
            THEN data.container_number.v ELSE @,
        !.consigneeName =
            IF @ = EmptyStr /\ Truthy(data.consignee_name)
            THEN data.consignee_name.v ELSE @,
        !.consigneeAddress =
            IF @ = EmptyStr /\ Truthy(data.consignee)
            THEN data.consignee.v ELSE @,
        !.date =
            IF @ = EmptyStr /\ Truthy(data.date)
            THEN SplitT0(data.date.v) ELSE @]

RECURSIVE TextLoop(_, _, _)
TextLoop(validData, i, aggregated) ==
    IF i > Len(validData) THEN aggregated
    ELSE TextLoop(validData, i + 1, TextStep(aggregated, validData[i]))

\* the running totals and counts of the loop over the numeric fields
ZeroTotals ==
    [totalLineItems |-> 0, totalWeight |-> 0, totalPrice |-> 0,
     countLineItems |-> 0, countWeight |-> 0, countPrice |-> 0]

\* NumStep testing the numbers for truthiness (if (data.line_items_count) ...):
\* a reported 0 is taken for no value
NumStepTruthy(t, data) ==
    LET li == Present(data.line_items_count) /\ data.line_items_count.v # 0
        w  == Present(data.average_gross_weight) /\ data.average_gross_weight.v # 0
        p  == Present(data.average_price) /\ data.average_price.v # 0
    IN  [totalLineItems |-> IF li THEN t.totalLineItems + data.line_items_count.v
                            ELSE t.totalLineItems,
         countLineItems |-> IF li THEN t.countLineItems + 1 ELSE t.countLineItems,
         totalWeight    |-> IF w THEN t.totalWeight + data.average_gross_weight.v
                            ELSE t.totalWeight,
         countWeight    |-> IF w THEN t.countWeight + 1 ELSE t.countWeight,
         totalPrice     |-> IF p THEN t.totalPrice + data.average_price.v
                            ELSE t.totalPrice,
         countPrice     |-> IF p THEN t.countPrice + 1 ELSE t.countPrice]

\* NumStep counting every FieldSet into the averages, reporting or not
NumStepCountAll(t, data) ==
    LET li == Present(data.line_items_count)
        w  == Present(data.average_gross_weight)
        p  == Present(data.average_price)
    IN  [totalLineItems |-> IF li THEN t.totalLineItems + data.line_items_count.v
                            ELSE t.totalLineItems,
         countLineItems |-> IF li THEN t.countLineItems + 1 ELSE t.countLineItems,
         totalWeight    |-> IF w THEN t.totalWeight + data.average_gross_weight.v
                            ELSE t.totalWeight,
         countWeight    |-> t.countWeight + 1,
         totalPrice     |-> IF p THEN t.totalPrice + data.average_price.v
                            ELSE t.totalPrice,
         countPrice     |-> t.countPrice + 1]

NumStep(t, data) ==
    LET li == Present(data.line_items_count)
        w  == Present(data.average_gross_weight)
        p  == Present(data.average_price)
    IN  [totalLineItems |-> IF li THEN t.totalLineItems + data.line_items_count.v
                            ELSE t.totalLineItems,
         countLineItems |-> IF li THEN t.countLineItems + 1 ELSE t.countLineItems,
         totalWeight    |-> IF w THEN t.totalWeight + data.average_gross_weight.v
                            ELSE t.totalWeight,
         countWeight    |-> IF w THEN t.countWeight + 1 ELSE t.countWeight,
         totalPrice     |-> IF p THEN t.totalPrice + data.average_price.v
                            ELSE t.totalPrice,
         countPrice     |-> IF p THEN t.countPrice + 1 ELSE t.countPrice]

RECURSIVE NumLoop(_, _, _)
NumLoop(validData, i, t) ==
    IF i > Len(validData) THEN t
    ELSE NumLoop(validData, i + 1, NumStep(t, validData[i]))

\* "Set aggregated numeric values"; totals of weight and price are thousandths
SetNumeric(aggregated, t) ==
    [aggregated EXCEPT
        !.lineItemsCount =
            IF t.countLineItems > 0 THEN NumberToString(t.totalLineItems) ELSE @,
        !.averageGrossWeight =
            IF t.countWeight > 0 THEN ToFixed2(t.totalWeight, 1000 * t.countWeight)
            ELSE @,
        !.averagePrice =
            IF t.countPrice > 0 THEN ToFixed2(t.totalPrice, 1000 * t.countPrice)
            ELSE @]

aggregateExtractedData(extractedDataArray) ==
    LET validData == ValidData(extractedDataArray)
    IN  IF Len(validData) = 0 THEN EmptyFormData
        ELSE SetNumeric(TextLoop(validData, 1, EmptyFormData),
                        NumLoop(validData, 1, ZeroTotals))

\* ------------------------------------------------------------ fileAnalysis.ts

UpperChars ==
    <<"A", "B", "C", "D", "E", "F", "G", "H", "I", "J", "K", "L", "M",
      "N", "O", "P", "Q", "R", "S", "T", "U", "V", "W", "X", "Y", "Z">>

LowerChars ==
    <<"a", "b", "c", "d", "e", "f", "g", "h", "i", "j", "k", "l", "m",
      "n", "o", "p", "q", "r", "s", "t", "u", "v", "w", "x", "y", "z">>

\* String.prototype.toLowerCase
ToLowerCase(s) ==
    [i \in 1..Len(s) |->
        IF \E j \in 1..26 : UpperChars[j] = s[i]
        THEN LowerChars[CHOOSE j \in 1..26 : UpperChars[j] = s[i]]
        ELSE s[i]]

\* String.prototype.endsWith
EndsWith(s, suffix) ==
    /\ Len(suffix) <= Len(s)
    /\ SubSeq(s, Len(s) - Len(suffix) + 1, Len(s)) = suffix

MimePdf == "application/pdf"

MimeXlsx == "application/vnd.openxmlformats-officedocument.spreadsheetml.sheet"

MimeXls == "application/vnd.ms-excel"

\* a browser File: its name, size, lastModified and (declared) type
File(name, size, lastModified, type) ==
    [name |-> name, size |-> size, lastModified |-> lastModified, type |-> type]

\* `${file.name}-${file.size}-${file.lastModified}`
generateFileFingerprint(file) ==
    file.name \o <<"-">> \o NumberToString(file.size)
              \o <<"-">> \o NumberToString(file.lastModified)

\* Math.round(x / y) for x >= 0, y > 0
RoundDiv(x, y) == (2 * x + y) \div (2 * y)

Max(a, b) == IF a >= b THEN a ELSE b

Min(a, b) == IF a <= b THEN a ELSE b

IsExcelName(file) ==
    \/ EndsWith(ToLowerCase(file.name), <<".", "x", "l", "s", "x">>)
    \/ EndsWith(ToLowerCase(file.name), <<".", "x", "l", "s">>)

\* the FileStats of a file; pages, sheets and rows are 0 where the code leaves
\* them out (type.includes('spreadsheet') / ('excel') hold of the two Excel types)
analyzeFile(file) ==
    LET excel == file.type = MimeXlsx \/ file.type = MimeXls \/ IsExcelName(file)
    IN  [size |-> file.size, lastModified |-> file.lastModified, type |-> file.type,
         fingerprint |-> generateFileFingerprint(file),
         pages  |-> IF file.type = MimePdf THEN Max(1, RoundDiv(file.size, 75000)) ELSE 0,
         sheets |-> IF excel THEN 1 ELSE 0,
         rows   |-> IF excel THEN Max(10, RoundDiv(file.size, 1000)) ELSE 0]

\* ------------------------------------------------------------ useDocuments.ts

\* existingDocuments.some(doc => doc.stats.fingerprint === fingerprint)
isDuplicateFile(file, existingDocuments) ==
    \E i \in 1..Len(existingDocuments) :
        existingDocuments[i].stats.fingerprint = generateFileFingerprint(file)

\* IsValidFileType going by the declared type alone
IsValidFileTypeByType(file) ==
    \/ file.type = MimePdf
    \/ file.type = MimeXlsx
    \/ file.type = MimeXls

\* the test "First check if it's a valid file type"
IsValidFileType(file) ==
    LET fileType == file.type
        fileName == ToLowerCase(file.name)
    IN  \/ fileType = MimePdf
        \/ fileType = MimeXlsx
        \/ fileType = MimeXls
        \/ EndsWith(fileName, <<".", "p", "d", "f">>)
        \/ EndsWith(fileName, <<".", "x", "l", "s", "x">>)
        \/ EndsWith(fileName, <<".", "x", "l", "s">>)

\* the DocumentData pushed for a file; n stands for what Date.now(),
\* Math.random() and URL.createObjectURL make unique
NewDocument(file, n) ==
    [id |-> n, file |-> file, stats |-> analyzeFile(file),
     rawApiData |-> NullData, documentUrl |-> n, isProcessed |-> FALSE]

\* an add operation (addDocuments: mode "add", addMoreDocuments: mode "more"):
\* state.documents of the render it was called in, its locals, and where it is
IdleAdd ==
    [pc |-> "idle", mode |-> "add", files |-> << >>, i |-> 1, closure |-> << >>,
     validFiles |-> << >>, invalidCount |-> 0, duplicateCount |-> 0]

\* RunLoop looking for duplicates in state.documents alone, not in the batch
RECURSIVE RunLoopStateOnly(_)
RunLoopStateOnly(t) ==
    IF t.i > Len(t.files) THEN [t EXCEPT !.pc = "finish"]
    ELSE LET file == t.files[t.i]
         IN  IF IsValidFileType(file)
             THEN IF isDuplicateFile(file, t.closure)
                  THEN RunLoopStateOnly([t EXCEPT !.duplicateCount = @ + 1, !.i = @ + 1])
                  ELSE [t EXCEPT !.pc = "await"]
             ELSE RunLoopStateOnly([t EXCEPT !.invalidCount = @ + 1, !.i = @ + 1])

\* the for loop from file i on, up to the next await analyzeFile(file)
\* (pc "await") or to its end (pc "finish")
RECURSIVE RunLoop(_)
RunLoop(t) ==
    IF t.i > Len(t.files) THEN [t EXCEPT !.pc = "finish"]
    ELSE LET file == t.files[t.i]
         IN  IF IsValidFileType(file)
             THEN IF isDuplicateFile(file, t.closure) \/ isDuplicateFile(file, t.validFiles)
                  THEN RunLoop([t EXCEPT !.duplicateCount = @ + 1, !.i = @ + 1])
                  ELSE [t EXCEPT !.pc = "await"]
             ELSE RunLoop([t EXCEPT !.invalidCount = @ + 1, !.i = @ + 1])

\* the toasts of an add operation as it finishes (a count of 0: no toast), with
\* the operation's arguments, its result and the documents it found in the state
AddReport(t, prevDocuments) ==
    [shown |-> TRUE, mode |-> t.mode, files |-> t.files, closure |-> t.closure,
     invalidCount |-> t.invalidCount, duplicateCount |-> t.duplicateCount,
     added |-> t.validFiles, before |-> prevDocuments]

\* no add operation has just finished
NoAddReport == [AddReport(IdleAdd, << >>) EXCEPT !.shown = FALSE]

\* AddedDocuments putting the new documents before the old ones
AddedDocumentsFirst(t, prevDocuments) ==
    IF t.validFiles = << >> THEN prevDocuments
    ELSE IF t.mode = "add" THEN t.validFiles
    ELSE t.validFiles \o prevDocuments

\* setState of addDocuments / addMoreDocuments
AddedDocuments(t, prevDocuments) ==
    IF t.validFiles = << >> THEN prevDocuments
    ELSE IF t.mode = "add" THEN t.validFiles
    ELSE prevDocuments \o t.validFiles

\* the file lists a caller hands over
FileA == File(<<"a", ".", "p", "d", "f">>, 1, 1, MimePdf)

\* the name of FileA, saved again later
FileA2 == File(<<"a", ".", "p", "d", "f">>, 1, 2, "")

FileXls == File(<<"B", ".", "X", "L", "S">>, 2, 1, "")

FileBin == File(<<"r", ".", "b", "i", "n">>, 3, 1, MimeXlsx)

FileTxt == File(<<"n", ".", "t", "x", "t">>, 1, 1, "text/plain")

\* the File[] handed to addDocuments / addMoreDocuments: one file; the same file
\* twice; two files of one name; supported files around an unsupported one; an
\* unsupported file alone
Batches ==
    {<<FileA>>, <<FileA, FileA>>, <<FileA2, FileA>>,
     <<FileXls, FileTxt, FileBin>>, <<FileTxt>>}

\* ------------------------------------------------- inputs of dataTransform.ts

DateOnlyA == <<"2", "0", "2", "4", "-", "0", "1", "-", "0", "5">>

DateOnlyB == <<"2", "0", "2", "3", "-", "1", "2", "-", "3", "1">>

\* "2024-01-05T10:30"
TimestampA == DateOnlyA \o <<"T", "1", "0", ":", "3", "0">>

\* "2023-12-31T00:00Z"
TimestampB == DateOnlyB \o <<"T", "0", "0", ":", "0", "0", "Z">>

\* dates the extraction returns that are no ISO dates: "OCT5", "TBD"
DateOct == <<"O", "C", "T", "5">>

DateTbd == <<"T", "B", "D">>

TextA == <<"A">>

TextB == <<"B">>

\* the values of a text field of ExtractedData (string | null | undefined)
TextVals == <<NullStr, UndefStr, Str(EmptyStr), Str(TextA), Str(TextB)>>

DateVals ==
    {NullStr, UndefStr, Str(EmptyStr), Str(DateOnlyA), Str(DateOnlyB),
     Str(TimestampA), Str(TimestampB), Str(DateOct), Str(DateTbd)}

\* line_items_count, average_gross_weight, average_price of one ExtractedData;
\* weights and prices in thousandths (150000 is 150.0, 1005 is 1.005)
NumVals ==
    {<<Num(10), Num(150000), Num(100000)>>,
     <<Num(8), Num(174760), Num(200000)>>,
     <<Num(0), Num(0), NullNum>>,
     <<NullNum, UndefNum, Num(1005)>>,
     <<UndefNum, NullNum, Num(2000)>>,
     <<Num(2), Num(-2505), Num(0)>>}

\* ExtractedData whose four text fields take the values of TextVals from the
\* i-th on, so that within one object the fields differ and every field takes
\* every value
TextData(i) ==
    LET t(j) == TextVals[((i + j - 1) % Len(TextVals)) + 1]
    IN  ExtractedData(t(0), t(1), t(2), t(3), NullStr, NullNum, NullNum, NullNum)

DateData(d) ==
    ExtractedData(NullStr, UndefStr, NullStr, NullStr, d, NullNum, UndefNum, NullNum)

NumData(n) ==
    ExtractedData(NullStr, NullStr, NullStr, NullStr, UndefStr, n[1], n[2], n[3])

\* what a text field of the form may hold: "", "A", " ", "B"
FormTextVals == <<EmptyStr, TextA, <<" ">>, TextB>>

\* what the field lineItemsCount of the form may hold:
\* "", "0", "10", "12abc", "abc", "12.7", " 7", "-3", "1e3"
FormCountVals ==
    <<<<>>,
      <<"0">>,
      <<"1", "0">>,
      <<"1", "2", "a", "b", "c">>,
      <<"a", "b", "c">>,
      <<"1", "2", ".", "7">>,
      <<" ", "7">>,
      <<"-", "3">>,
      <<"1", "e", "3">>>>

\* what the fields averageGrossWeight and averagePrice of the form may hold:
\* "", "150.5", "abc", "1e3", ".5", "0", "-2.505", "12kg", "174.76"
FormFloatVals ==
    <<<<>>,
      <<"1", "5", "0", ".", "5">>,
      <<"a", "b", "c">>,
      <<"1", "e", "3">>,
      <<".", "5">>,
      <<"0">>,
      <<"-", "2", ".", "5", "0", "5">>,
      <<"1", "2", "k", "g">>,
      <<"1", "7", "4", ".", "7", "6">>>>

\* DocumentFormData whose fields take the values above from the i-th on
FormDataValue(i) ==
    LET t(j) == FormTextVals[((i + j - 1) % Len(FormTextVals)) + 1]
    IN  [billOfLadingNumber |-> t(0), containerNumber |-> t(1),
         consigneeName |-> t(2), consigneeAddress |-> t(3),
         date |-> IF i % 2 = 0 THEN DateOnlyA ELSE EmptyStr,
         lineItemsCount |-> FormCountVals[i],
         averageGrossWeight |-> FormFloatVals[i],
         averagePrice |-> FormFloatVals[(i % Len(FormFloatVals)) + 1]]

FormDataValues == {FormDataValue(i) : i \in 1..Len(FormCountVals)}

\* the elements of an (ExtractedData | null)[]
ExtractedDataValues ==
    {NullData} \cup {TextData(i) : i \in 1..Len(TextVals)}
               \cup {DateData(d) : d \in DateVals}
               \cup {NumData(n) : n \in NumVals}

ExtractedDataArrays ==
    UNION {[1..n -> ExtractedDataValues] : n \in 0..MaxSets}

\* --------------------------------------------------------------- variables

VARIABLES
    extractedDataArray, \* the argument of the dataTransform.ts functions
    aggregated,         \* << >>, or <<r>>: r returned by aggregateExtractedData
    formData,           \* << >>, or the transformApiDataToFormData results
    apiData,            \* << >>, or a call of transformFormDataToApiData:
                        \* <<[formData |-> its argument, result |-> its result]>>
    documents,          \* state.documents
    currentIndex,       \* state.currentIndex
    isProcessing,       \* state.isProcessing
    aggregatedFormData, \* state.aggregatedFormData: << >> is null, else <<form>>
    addOps,             \* the add operations suspended at await analyzeFile
    procOps,            \* the processDocuments calls suspended at await fetch
    ops,                \* operations called so far, navigation aside
    nextId,             \* documents (ids, object URLs) created so far
    revokedUrls,        \* the object URLs handed to URL.revokeObjectURL
    addReport,          \* the toasts of the add operation that has just finished
    processingToast,    \* the toast with id "processing"
    procReport,         \* the request that has just been answered, and the answer
    called,             \* the operation of the hook the last step belongs to
    app,                \* App: files, error, and the files last selected
    viewer,             \* DocumentViewer / DocumentViewerSimple
    preview,            \* ExcelPreview
    storage,            \* localStorage, as saveChanges uses it
    shipmentForm        \* ShipmentForm and its parent

dtVars == <<extractedDataArray, aggregated, formData, apiData>>

hookVars ==
    <<documents, currentIndex, isProcessing, aggregatedFormData, addOps, procOps,
      ops, nextId, revokedUrls, addReport, processingToast, procReport, called>>

uiVars == <<app, viewer, preview, storage, shipmentForm>>

vars ==
    <<app, viewer, preview, storage, shipmentForm,
      extractedDataArray, aggregated, formData, apiData,
      documents, currentIndex, isProcessing, aggregatedFormData, addOps, procOps,
      ops, nextId, revokedUrls, addReport, processingToast, procReport, called>>

\* ------------------------------------------------- the useDocuments hook

\* toast.loading / toast.success / toast.error(..., { id: "processing" })
Toast(kind, message) == [kind |-> kind, message |-> message]

\* the request that has just been answered, the answer and the branch taken
\* ("success": the try block ran through, "error": catch)
ProcReport(outcome, request, resp) ==
    [outcome |-> outcome, request |-> request, resp |-> resp]

NoProcReport ==
    ProcReport("none", << >>, [kind |-> "none", isArray |-> FALSE, data |-> << >>])

\* useState<DocumentProcessingState>({...})
\* "Some files were ignored. Only PDF and Excel files are supported."
IgnoredMessage == Str("Some files were ignored. Only PDF and Excel files are supported.")

\* useState<File[]>([]), useState<string | null>(null)
AppInit == app = [files |-> << >>, error |-> NullStr, selectedFiles |-> << >>]

\* the documentIds prop of DocumentViewer / DocumentViewerSimple
documentIds == <<"d1", "d2", "d3">>

\* loadDocument(docId) up to await axios.get: setLoading(true), setError(null)
\* (setPdfError(null) in DocumentViewer), and the request is pending
loadDocument(v, docId) ==
    [v EXCEPT !.loading = TRUE, !.error = NullStr,
              !.pending = Append(@, docId), !.loads = @ + 1]

\* the useState values, and the effect of the first render
ViewerInit ==
    viewer = loadDocument([currentDocIndex |-> 0, documentData |-> NullStr,
                           pageNumber |-> 1, loading |-> FALSE, error |-> NullStr,
                           pending |-> << >>, loads |-> 0],
                          documentIds[1])

\* File props of ExcelPreview: what read() makes of the file's bytes
Workbook(name, readable, SheetNames) ==
    [name |-> name, readable |-> readable, SheetNames |-> SheetNames]
WorkbookA == Workbook("a.xlsx", TRUE, <<"A1", "A2", "A3">>)
WorkbookB == Workbook("b.xlsx", TRUE, <<"B1">>)
WorkbookEmpty == Workbook("e.xlsx", TRUE, << >>)
WorkbookBad == Workbook("bad.xlsx", FALSE, << >>)
Workbooks == {WorkbookA, WorkbookB, WorkbookEmpty, WorkbookBad}

\* the effect on [file]: loadExcelFile up to await file.arrayBuffer(), with its
\* own isCancelled
loadExcelFile(p, file) ==
    [p EXCEPT !.loading = TRUE, !.error = NullStr,
              !.loads = Append(@, [file |-> file, isCancelled |-> FALSE]),
              !.files = @ + 1]

\* the useState values, and the effect of the first render
PreviewInit ==
    preview = loadExcelFile([file |-> WorkbookA, mounted |-> TRUE, sheets |-> << >>,
                             currentSheetIndex |-> 0, loading |-> TRUE,
                             error |-> NullStr, loads |-> << >>, files |-> 0,
                             settled |-> << >>],
                            WorkbookA)

\* values of the result state: none, an ErrorResult, a ProcessResult
NoResult == [kind |-> "null"]
ErrorResult == [kind |-> "error", error |-> "Failed to process files"]
ProcessResult ==
    [kind |-> "result", status |-> "success",
     structured_data |-> [document_type |-> <<"B", "/", "L", " ", "x">>,
                          extracted_fields |-> [shipper |-> "ACME", port |-> "LA"]]]
Results == {NoResult, ErrorResult, ProcessResult}

\* the useState values of the page, an empty localStorage, and the clock
StorageInit ==
    storage = [result |-> NoResult, formData |-> << >>, saveStatus |-> "idle",
               localStorage |-> << >>, now |-> 0, timers |-> 0, saves |-> 0,
               alert |-> ""]

\* a ShipmentData object: its identity and its fields (two of the eight)
ShipmentData(id, container_number, line_items_count) ==
    [id |-> id, container_number |-> container_number,
     line_items_count |-> line_items_count]

\* the useState values of ShipmentForm for the data prop of the parent
ShipmentFormInit ==
    shipmentForm =
        [data |-> ShipmentData(0, Str(<<"C", "1">>), Num(2)),
         formData |-> ShipmentData(0, Str(<<"C", "1">>), Num(2)),
         isEditing |-> FALSE, isSaving |-> FALSE, posted |-> << >>,
         onUpdate |-> << >>, alert |-> "", edits |-> 0, step |-> "render"]

UiInit == AppInit /\ ViewerInit /\ PreviewInit /\ StorageInit /\ ShipmentFormInit

HookInit ==
    /\ documents = << >>
    /\ currentIndex = 0
    /\ isProcessing = FALSE
    /\ aggregatedFormData = << >>
    /\ addOps = << >>
    /\ procOps = << >>
    /\ ops = 0
    /\ nextId = 0
    /\ revokedUrls = {}
    /\ addReport = NoAddReport
    /\ processingToast = Toast("none", "")
    /\ procReport = NoProcReport
    /\ called = "none"

\* a sequence without its k-th element
RemoveAt(seq, k) == SubSeq(seq, 1, k - 1) \o SubSeq(seq, k + 1, Len(seq))

\* addDocuments(files) / addMoreDocuments(files), up to the first await
AddStart(mode, files) ==
    /\ ops < MaxOps
    /\ ops' = ops + 1
    /\ LET t == RunLoop([IdleAdd EXCEPT !.pc = "run", !.mode = mode,
                                        !.files = files, !.closure = documents])
       IN  IF t.pc = "finish"
           THEN /\ addReport' = AddReport(t, documents)
                /\ UNCHANGED addOps
           ELSE /\ addOps' = Append(addOps, t)
                /\ addReport' = NoAddReport
    /\ procReport' = NoProcReport
    /\ UNCHANGED <<documents, currentIndex, isProcessing, aggregatedFormData,
                   procOps, nextId, revokedUrls, processingToast>>
    /\ called' = IF mode = "add" THEN "addDocuments" ELSE "addMoreDocuments"
    /\ UNCHANGED dtVars
    /\ UNCHANGED uiVars

\* the k-th suspended add operation goes on after await analyzeFile: it pushes
\* the document and runs to the next await, or to its end and its setState
AddResume(k) ==
    /\ k \in 1..Len(addOps)
    /\ \E a \in {[addOps[k] EXCEPT
                    !.validFiles = Append(@, NewDocument(addOps[k].files[addOps[k].i],
                                                        nextId + 1)),
                    !.i = @ + 1]} :
       \E t \in {RunLoop(a)} :
           /\ nextId' = nextId + 1
           /\ IF t.pc = "finish"
              THEN /\ documents' = AddedDocuments(t, documents)
                   /\ currentIndex' = IF t.mode = "add" THEN 0 ELSE currentIndex
                   /\ addReport' = AddReport(t, documents)
                   /\ addOps' = RemoveAt(addOps, k)
              ELSE /\ addOps' = [addOps EXCEPT ![k] = t]
                   /\ addReport' = NoAddReport
                   /\ UNCHANGED <<documents, currentIndex>>
    /\ procReport' = NoProcReport
    /\ UNCHANGED <<isProcessing, aggregatedFormData, procOps, ops, revokedUrls,
                   processingToast>>
    /\ called' = IF addOps[k].mode = "add" THEN "addDocuments" ELSE "addMoreDocuments"
    /\ UNCHANGED dtVars
    /\ UNCHANGED uiVars

\* prev.documents.filter(doc => doc.id !== id)
WithoutId(docs, id) == SelectSeq(docs, LAMBDA doc : doc.id # id)

\* removeDocument dropping the record along with the document
removeDocumentAndRecord(id) ==
    /\ \E i \in 1..Len(documents) : documents[i].id = id
    /\ LET newDocuments == WithoutId(documents, id)
           first == CHOOSE i \in 1..Len(documents) : documents[i].id = id
                       /\ \A j \in 1..(i - 1) : documents[j].id # id
       IN  /\ revokedUrls' = revokedUrls \cup {documents[first].documentUrl}
           /\ documents' = newDocuments
           /\ currentIndex' = IF currentIndex >= Len(newDocuments)
                              THEN Max(0, Len(newDocuments) - 1)
                              ELSE currentIndex
    /\ ops < MaxOps
    /\ ops' = ops + 1
    /\ addReport' = NoAddReport /\ procReport' = NoProcReport
    /\ aggregatedFormData' = << >>
    /\ UNCHANGED <<isProcessing, addOps, procOps, nextId,
                   processingToast>>
    /\ called' = "removeDocument"
    /\ UNCHANGED dtVars
    /\ UNCHANGED uiVars

removeDocument(id) ==
    /\ \E i \in 1..Len(documents) : documents[i].id = id
    /\ LET newDocuments == WithoutId(documents, id)
           first == CHOOSE i \in 1..Len(documents) : documents[i].id = id
                       /\ \A j \in 1..(i - 1) : documents[j].id # id
       IN  /\ revokedUrls' = revokedUrls \cup {documents[first].documentUrl}
           /\ documents' = newDocuments
           /\ currentIndex' = IF currentIndex >= Len(newDocuments)
                              THEN Max(0, Len(newDocuments) - 1)
                              ELSE currentIndex
    /\ ops < MaxOps
    /\ ops' = ops + 1
    /\ addReport' = NoAddReport /\ procReport' = NoProcReport
    /\ UNCHANGED <<isProcessing, aggregatedFormData, addOps, procOps, nextId,
                   processingToast>>
    /\ called' = "removeDocument"
    /\ UNCHANGED dtVars
    /\ UNCHANGED uiVars

\* what the server may send back for a request of n files
DataA ==
    ExtractedData(Str(TextA), Str(TextA), NullStr, Str(TextB), Str(TimestampA),
                  Num(10), Num(150000), NullNum)

DataB ==
    ExtractedData(Str(TextB), NullStr, Str(TextA), UndefStr, Str(DateOnlyB),
                  Num(8), Num(174760), Num(200000))

DataChoices == <<DataA, NullData, DataB>>

\* a fetch outcome: "network" (fetch rejects), "http" (response.ok false),
\* "syntax" (response.json() rejects), "json" (data: an array, or one object)
Response(kind, isArray, data) == [kind |-> kind, isArray |-> isArray, data |-> data]

\* the body of an error response, {"detail": ...}: none of the eight keys
ErrorBody ==
    ExtractedData(UndefStr, UndefStr, UndefStr, UndefStr, UndefStr,
                  UndefNum, UndefNum, UndefNum)

Responses(n) ==
    {Response("network", FALSE, << >>), Response("http", FALSE, <<ErrorBody>>),
     Response("syntax", FALSE, << >>)}
    \cup {Response("json", FALSE, <<DataChoices[r]>>) : r \in 1..3}
    \cup {Response("json", TRUE, [i \in 1..m |-> DataChoices[((i + r) % 3) + 1]]) :
            r \in 1..3, m \in {n - 1, n}}

\* Array.isArray(data) ? data[index] : (index === 0 ? data : null),
\* with the index counted from 1
ApiData(resp, index) ==
    IF resp.isArray
    THEN IF index <= Len(resp.data) THEN resp.data[index] ELSE UndefinedData
    ELSE IF index = 1 THEN resp.data[1] ELSE NullData

\* state.documents.map((doc, index) => ({...doc, rawApiData, isProcessed: true}))
ProcessedDocuments(closure, resp) ==
    [i \in 1..Len(closure) |->
        [closure[i] EXCEPT !.rawApiData = ApiData(resp, i), !.isProcessed = TRUE]]

\* Throws without the test of response.ok
ThrowsUnlessNotOk(closure, resp) ==
    \/ resp.kind \in {"network", "syntax"}
    \/ \E i \in 1..Len(closure) : ApiData(resp, i).tag = "undefined"

\* whether the try block throws: fetch or json() rejects, the status is not OK,
\* or aggregateExtractedData reads a field of an undefined element
Throws(closure, resp) ==
    \/ resp.kind # "json"
    \/ \E i \in 1..Len(closure) : ApiData(resp, i).tag = "undefined"

\* err.message of what is thrown (the TypeError's goes on to name the field read)
ErrorMessage(resp) ==
    IF resp.kind = "network" THEN "Failed to fetch"
    ELSE IF resp.kind = "http" THEN "HTTP error! status: 500"
    ELSE IF resp.kind = "syntax" THEN "Unexpected token < in JSON at position 0"
    ELSE "Cannot read properties of undefined"

\* FormDataFiles leaving out the documents that have their results already
FormDataFilesUnprocessed(docs) ==
    LET rest == SelectSeq(docs, LAMBDA doc : ~doc.isProcessed)
    IN  [i \in 1..Len(rest) |-> rest[i].file]

\* state.documents.forEach(doc => formData.append("files", doc.file))
FormDataFiles(docs) == [i \in 1..Len(docs) |-> docs[i].file]

\* processDocuments(), up to await fetch(...)
ProcessStart ==
    /\ ops < MaxOps
    /\ Len(documents) # 0
    /\ ops' = ops + 1
    /\ isProcessing' = TRUE
    /\ processingToast' = Toast("loading", "Processing documents...")
    /\ addReport' = NoAddReport /\ procReport' = NoProcReport
    /\ procOps' = Append(procOps,
            [closure |-> documents, request |-> FormDataFiles(documents)])
    /\ UNCHANGED <<documents, currentIndex, aggregatedFormData, addOps, nextId,
                   revokedUrls>>
    /\ called' = "processDocuments"
    /\ UNCHANGED dtVars
    /\ UNCHANGED uiVars

\* the k-th pending request is answered: the rest of the try block, or catch
ProcessRespond(k, resp) ==
    /\ k \in 1..Len(procOps)
    /\ LET p == procOps[k]
           processedDocuments == ProcessedDocuments(p.closure, resp)
           allExtractedData ==
               [i \in 1..Len(processedDocuments) |-> processedDocuments[i].rawApiData]
       IN  IF Throws(p.closure, resp)
           THEN /\ processingToast' = Toast("error", ErrorMessage(resp))
                /\ procReport' = ProcReport("error", p.request, resp)
                /\ UNCHANGED <<documents, aggregatedFormData>>
           ELSE /\ documents' = processedDocuments
                /\ aggregatedFormData' = <<aggregateExtractedData(allExtractedData)>>
                /\ processingToast' = Toast("success", "Documents processed successfully!")
                /\ procReport' = ProcReport("success", p.request, resp)
    /\ isProcessing' = FALSE
    /\ procOps' = RemoveAt(procOps, k)
    /\ addReport' = NoAddReport
    /\ UNCHANGED <<currentIndex, addOps, ops, nextId, revokedUrls>>
    /\ called' = "processDocuments"
    /\ UNCHANGED dtVars
    /\ UNCHANGED uiVars

goToDocument(index) ==
    /\ index >= 0 /\ index < Len(documents)
    /\ currentIndex' = index
    /\ addReport' = NoAddReport /\ procReport' = NoProcReport
    /\ UNCHANGED <<documents, isProcessing, aggregatedFormData, addOps, procOps,
                   ops, nextId, revokedUrls, processingToast>>
    /\ called' = "goToDocument"
    /\ UNCHANGED dtVars
    /\ UNCHANGED uiVars

goToPrevious ==
    /\ currentIndex' = Max(0, currentIndex - 1)
    /\ addReport' = NoAddReport /\ procReport' = NoProcReport
    /\ UNCHANGED <<documents, isProcessing, aggregatedFormData, addOps, procOps,
                   ops, nextId, revokedUrls, processingToast>>
    /\ called' = "goToPrevious"
    /\ UNCHANGED dtVars
    /\ UNCHANGED uiVars

goToNext ==
    /\ currentIndex' = Min(Len(documents) - 1, currentIndex + 1)
    /\ addReport' = NoAddReport /\ procReport' = NoProcReport
    /\ UNCHANGED <<documents, isProcessing, aggregatedFormData, addOps, procOps,
                   ops, nextId, revokedUrls, processingToast>>
    /\ called' = "goToNext"
    /\ UNCHANGED dtVars
    /\ UNCHANGED uiVars

resetDocuments ==
    /\ revokedUrls' = revokedUrls \cup
                        {documents[i].documentUrl : i \in 1..Len(documents)}
    /\ documents' = << >>
    /\ currentIndex' = 0
    /\ isProcessing' = FALSE
    /\ aggregatedFormData' = << >>
    /\ ops < MaxOps
    /\ ops' = ops + 1
    /\ addReport' = NoAddReport /\ procReport' = NoProcReport
    /\ UNCHANGED <<addOps, procOps, nextId, processingToast>>
    /\ called' = "resetDocuments"
    /\ UNCHANGED dtVars
    /\ UNCHANGED uiVars

\* what the user may type into the form
EditedFormData == [EmptyFormData EXCEPT !.billOfLadingNumber = <<"E">>]

updateAggregatedFormData(fd) ==
    /\ aggregatedFormData' = <<fd>>
    /\ ops < MaxOps
    /\ ops' = ops + 1
    /\ addReport' = NoAddReport /\ procReport' = NoProcReport
    /\ UNCHANGED <<documents, currentIndex, isProcessing, addOps, procOps,
                   nextId, revokedUrls, processingToast>>
    /\ called' = "updateAggregatedFormData"
    /\ UNCHANGED dtVars
    /\ UNCHANGED uiVars

Init ==
    /\ HookInit
    /\ UiInit
    /\ extractedDataArray = << >>
    /\ aggregated = << >>
    /\ formData = << >>
    /\ apiData = << >>

Next ==
    \/ \E mode \in {"add", "more"}, files \in Batches : AddStart(mode, files)
    \/ \E k \in 1..Len(addOps) : AddResume(k)
    \/ \E i \in 1..Len(documents) : removeDocument(documents[i].id)
    \/ ProcessStart
    \/ \E k \in 1..Len(procOps) :
          \E resp \in Responses(Len(procOps[k].closure)) : ProcessRespond(k, resp)
    \/ \E index \in 0..(Len(documents) - 1) : goToDocument(index)
    \/ goToPrevious
    \/ goToNext
    \/ resetDocuments
    \/ updateAggregatedFormData(EditedFormData)

Spec == Init /\ [][Next]_vars

\* the hook under the scheduling the runtime gives it: analyzeFile settles, so
\* a suspended add operation goes on; fetch is called without a signal or a
\* timer, so nothing makes a pending request settle
SpecFair == Spec /\ WF_vars(\E k \in 1..Len(addOps) : AddResume(k))

\* ------------------------------------------- specification of dataTransform.ts

DtInit ==
    /\ extractedDataArray \in ExtractedDataArrays
    /\ aggregated = << >>
    /\ formData = << >>
    /\ apiData = << >>
    /\ HookInit
    /\ UiInit

\* a call of aggregateExtractedData(extractedDataArray)
Aggregate ==
    /\ aggregated = << >>
    /\ aggregated' = <<aggregateExtractedData(extractedDataArray)>>
    /\ UNCHANGED <<extractedDataArray, formData, apiData>>
    /\ UNCHANGED hookVars
    /\ UNCHANGED uiVars

\* calls of transformApiDataToFormData on the objects of extractedDataArray
\* (the null elements, which it does not accept, are left out)
TransformApi ==
    /\ formData = << >>
    /\ ValidData(extractedDataArray) # << >>
    /\ formData' = [i \in 1..Len(ValidData(extractedDataArray)) |->
                        transformApiDataToFormData(ValidData(extractedDataArray)[i])]
    /\ UNCHANGED <<extractedDataArray, aggregated, apiData>>
    /\ UNCHANGED hookVars
    /\ UNCHANGED uiVars

\* a call of transformFormDataToApiData(fd) (the function does not read the
\* array: the calls are made next to the empty one)
TransformForm(fd) ==
    /\ apiData = << >>
    /\ extractedDataArray = << >>
    /\ apiData' = <<[formData |-> fd, result |-> transformFormDataToApiData(fd)]>>
    /\ UNCHANGED <<extractedDataArray, aggregated, formData>>
    /\ UNCHANGED hookVars
    /\ UNCHANGED uiVars

DtNext ==
    \/ Aggregate
    \/ TransformApi
    \/ \E fd \in FormDataValues : TransformForm(fd)

SpecDataTransform == DtInit /\ [][DtNext]_vars

\* ------------------------------------------------ claims on dataTransform.ts

\* the least element of a non-empty set of integers
Least(S) == CHOOSE i \in S : \A j \in S : i <= j

\* the indices of the objects (non-null elements) of an extractedDataArray
DataIdx(arr) == {i \in 1..Len(arr) : arr[i].tag = "data"}

\* (key of ExtractedData, key of DocumentFormData) of the four plain text fields
TextFields ==
    {<<"bill_of_lading_number", "billOfLadingNumber">>,
     <<"container_number", "containerNumber">>,
     <<"consignee_name", "consigneeName">>,
     <<"consignee", "consigneeAddress">>}

RECURSIVE SumOver(_, _, _)
SumOver(arr, key, S) ==
    IF S = {} THEN 0
    ELSE LET i == Least(S) IN arr[i][key].v + SumOver(arr, key, S \ {i})

\* the number a string of decimal digits denotes
RECURSIVE DigitsValue(_)
DigitsValue(s) ==
    IF s = << >> THEN 0
    ELSE 10 * DigitsValue(SubSeq(s, 1, Len(s) - 1)) + DigitVal(s[Len(s)])

AllDigits(s) == s # << >> /\ \A i \in 1..Len(s) : IsDigit(s[i])

\* a decimal with exactly two places, "[-]d+.dd", read as hundredths
IsFixed2(s) ==
    LET u == IF s # << >> /\ s[1] = "-" THEN Tail(s) ELSE s
    IN  /\ Len(u) >= 4
        /\ u[Len(u) - 2] = "."
        /\ AllDigits(SubSeq(u, 1, Len(u) - 3))
        /\ AllDigits(SubSeq(u, Len(u) - 1, Len(u)))

Fixed2Hundredths(s) ==
    LET neg == s[1] = "-"
        u   == IF neg THEN Tail(s) ELSE s
        h   == 100 * DigitsValue(SubSeq(u, 1, Len(u) - 3))
               + DigitsValue(SubSeq(u, Len(u) - 1, Len(u)))
    IN  IF neg THEN 0 - h ELSE h

Abs(x) == IF x < 0 THEN 0 - x ELSE x

\* YYYY-MM-DDThh:mm followed by anything
IsIsoTimestamp(s) ==
    /\ Len(s) >= 16
    /\ \A i \in {1, 2, 3, 4, 6, 7, 9, 10, 12, 13, 15, 16} : IsDigit(s[i])
    /\ s[5] = "-" /\ s[8] = "-" /\ s[11] = "T" /\ s[14] = ":"

DateComponent(s) == SubSeq(s, 1, 10)

\* C1 as stated: each of the four text fields of the result is the value of the
\* first FieldSet, in input order, whose value for it is non-null.
\* Refuted by an empty string: [{bol: ""}, {bol: "A"}] gives "A", not "".
C1_FirstNonNullWins ==
    aggregated # << >> =>
        \A f \in TextFields :
            LET S == {i \in DataIdx(extractedDataArray) :
                        Present(extractedDataArray[i][f[1]])}
            IN  S # {} =>
                  aggregated[1][f[2]] = extractedDataArray[Least(S)][f[1]].v

\* C1 amended: each of the four text fields of the result is the value of the
\* first FieldSet, in input order, whose value for it is a non-empty string
\* (neither null, absent nor ""); no later FieldSet changes it.
C1_FirstNonEmptyWins ==
    aggregated # << >> =>
        \A f \in TextFields :
            LET S == {i \in DataIdx(extractedDataArray) :
                        Truthy(extractedDataArray[i][f[1]])}
            IN  S # {} =>
                  aggregated[1][f[2]] = extractedDataArray[Least(S)][f[1]].v

\* two FieldSets give different non-empty container numbers, the first one's
\* is the result
C1_Witness ==
    /\ aggregated # << >>
    /\ Len(extractedDataArray) = 2
    /\ extractedDataArray[1].tag = "data" /\ extractedDataArray[2].tag = "data"
    /\ Truthy(extractedDataArray[1].container_number)
    /\ Truthy(extractedDataArray[2].container_number)
    /\ extractedDataArray[1].container_number # extractedDataArray[2].container_number
    /\ aggregated[1].containerNumber = extractedDataArray[1].container_number.v

\* C2: the line-item count of the result is the decimal numeral of the sum of
\* line_items_count over the FieldSets where it is neither null nor absent
\* (a reported 0 counts), and the empty string when there is none.
C2_LineItemsSum ==
    aggregated # << >> =>
        LET S == {i \in DataIdx(extractedDataArray) :
                    Present(extractedDataArray[i].line_items_count)}
            r == aggregated[1].lineItemsCount
        IN  IF S = {} THEN r = EmptyStr
            ELSE /\ AllDigits(r)
                 /\ DigitsValue(r) = SumOver(extractedDataArray, "line_items_count", S)

\* one FieldSet reports 0 and another a positive count: the result is their sum
C2_Witness ==
    /\ aggregated # << >>
    /\ \E i, j \in DataIdx(extractedDataArray) :
          /\ extractedDataArray[i].line_items_count = Num(0)
          /\ Present(extractedDataArray[j].line_items_count)
          /\ extractedDataArray[j].line_items_count.v > 0
          /\ DigitsValue(aggregated[1].lineItemsCount)
                = extractedDataArray[j].line_items_count.v

\* the result's key is a two-place decimal within half a hundredth of the mean
\* of the key of ExtractedData over the FieldSets reporting it (values are
\* thousandths: |total / (10 n) - hundredths| <= 1/2), and empty when none does
MeanRounded(arr, key, r) ==
    LET S == {i \in DataIdx(arr) : Present(arr[i][key])}
        n == Cardinality(S)
    IN  IF S = {} THEN r = EmptyStr
        ELSE /\ IsFixed2(r)
             /\ Abs(SumOver(arr, key, S) - 10 * n * Fixed2Hundredths(r)) <= 5 * n

\* C3: average gross weight and average price of the result are each the mean
\* of that field over exactly the FieldSets reporting a value, rounded to two
\* decimal places, and empty when no FieldSet reports one.
C3_MeanRounded ==
    aggregated # << >> =>
        /\ MeanRounded(extractedDataArray, "average_gross_weight",
                       aggregated[1].averageGrossWeight)
        /\ MeanRounded(extractedDataArray, "average_price",
                       aggregated[1].averagePrice)

\* two FieldSets report a price, their mean has more than two decimal places
C3_Witness ==
    /\ aggregated # << >>
    /\ Len(extractedDataArray) = 2
    /\ extractedDataArray[1].tag = "data" /\ extractedDataArray[2].tag = "data"
    /\ Present(extractedDataArray[1].average_price)
    /\ Present(extractedDataArray[2].average_price)
    /\ (extractedDataArray[1].average_price.v
          + extractedDataArray[2].average_price.v) % 20 # 0
    /\ IsFixed2(aggregated[1].averagePrice)

\* C4 as stated, reading "non-null" as "a non-empty string": the date of the
\* result is that of the first FieldSet having one, its first ten characters
\* when it is timestamp-shaped and unchanged otherwise, and no later FieldSet's
\* date is used.  Refuted by a date holding a "T" that is no timestamp:
\* [{date: "TBD"}, {date: "2023-12-31"}] gives "2023-12-31".
C4_FirstDateWins ==
    aggregated # << >> =>
        LET S == {i \in DataIdx(extractedDataArray) :
                    Truthy(extractedDataArray[i].date)}
            d == extractedDataArray[Least(S)].date.v
        IN  S # {} =>
              aggregated[1].date = IF IsIsoTimestamp(d) THEN DateComponent(d) ELSE d

\* C5: a timestamp-shaped date (YYYY-MM-DDThh:mm...) is stored as its
\* YYYY-MM-DD part: by transformApiDataToFormData for the date of its argument,
\* by aggregateExtractedData for the date of the first FieldSet that has one;
\* and no stored date is timestamp-shaped.
C5_TimestampTruncated ==
    /\ formData # << >> =>
          \A i \in 1..Len(formData) :
              LET d == ValidData(extractedDataArray)[i].date
              IN  /\ Truthy(d) /\ IsIsoTimestamp(d.v)
                        => formData[i].date = DateComponent(d.v)
                  /\ ~IsIsoTimestamp(formData[i].date)
    /\ aggregated # << >> =>
          LET S == {i \in DataIdx(extractedDataArray) :
                      Truthy(extractedDataArray[i].date)}
              d == extractedDataArray[Least(S)].date.v
          IN  /\ S # {} /\ IsIsoTimestamp(d) => aggregated[1].date = DateComponent(d)
              /\ ~IsIsoTimestamp(aggregated[1].date)

\* both functions have stored the date part of a timestamp
C5_Witness ==
    /\ aggregated # << >> /\ formData # << >>
    /\ extractedDataArray[1].tag = "data"
    /\ Truthy(extractedDataArray[1].date)
    /\ IsIsoTimestamp(extractedDataArray[1].date.v)
    /\ aggregated[1].date = DateOnlyB
    /\ formData[1].date = DateOnlyB

\* ---------------------------------------------------- claims on useDocuments.ts

Fingerprints(docs) == {docs[i].stats.fingerprint : i \in 1..Len(docs)}

\* the documents of docs made from a file of the name, size and lastModified of f
DocsOf(docs, f) ==
    {i \in 1..Len(docs) :
        /\ docs[i].file.name = f.name
        /\ docs[i].file.size = f.size
        /\ docs[i].file.lastModified = f.lastModified}

\* C6: an add operation handed the same supported file twice (and nothing else),
\* the file not being among the documents it was called with, counts exactly
\* one duplicate and adds exactly one document for it; the state then holds
\* exactly one document of that file, unless another operation put one there
\* meanwhile.
C6_SameFileTwice ==
    (/\ addReport.shown
     /\ Len(addReport.files) = 2
     /\ addReport.files[1] = addReport.files[2]
     /\ IsValidFileType(addReport.files[1])
     /\ DocsOf(addReport.closure, addReport.files[1]) = {})
    => /\ addReport.duplicateCount = 1
       /\ addReport.invalidCount = 0
       /\ Len(addReport.added) = 1
       /\ addReport.added[1].file = addReport.files[1]
       /\ (DocsOf(addReport.before, addReport.files[1]) = {}
             => Cardinality(DocsOf(documents, addReport.files[1])) = 1)

\* addMoreDocuments([a.pdf, a.pdf]) has just finished next to another document
C6_Witness ==
    /\ addReport.shown
    /\ addReport.mode = "more"
    /\ addReport.files = <<FileA, FileA>>
    /\ addReport.duplicateCount = 1
    /\ Len(documents) = 2
    /\ Cardinality(DocsOf(documents, FileA)) = 1

\* C7 as stated: in every reachable state no two documents share a fingerprint.
\* Refuted by two add operations that overlap at await analyzeFile: both test
\* the file against the state.documents of the render they were called in.
C7_NoSharedFingerprint ==
    \A i, j \in 1..Len(documents) :
        i # j => documents[i].stats.fingerprint # documents[j].stats.fingerprint

\* the characters of a name after its last ".", in lower case
Extension(name) ==
    LET dots == {i \in 1..Len(name) : name[i] = "."}
    IN  IF dots = {} THEN << >>
        ELSE ToLowerCase(SubSeq(name, (CHOOSE i \in dots : \A j \in dots : j <= i) + 1,
                                Len(name)))

\* the formats named by C8, and those with legacy Excel: declared types and
\* extensions
PdfXlsx ==
    [types |-> {MimePdf, MimeXlsx},
     exts |-> {<<"p", "d", "f">>, <<"x", "l", "s", "x">>}]

PdfExcel ==
    [types |-> {MimePdf, MimeXlsx, MimeXls},
     exts |-> {<<"p", "d", "f">>, <<"x", "l", "s", "x">>, <<"x", "l", "s">>}]

\* the declared type of f or its extension resolves to one of the formats
Resolves(f, formats) ==
    \/ f.type \in formats.types
    \/ Extension(f.name) \in formats.exts

\* what C8 says of a finished add operation, given the formats it is to take: the skipped count is that of the files not accepted, every file is
\* counted once (skipped, duplicate or added), an accepted file was a document
\* already or is added, and what is added is in the state
IntakeRejectsUnless(formats) ==
    addReport.shown =>
        /\ addReport.invalidCount
              = Cardinality({i \in 1..Len(addReport.files) : ~Resolves(addReport.files[i], formats)})
        /\ addReport.invalidCount + addReport.duplicateCount + Len(addReport.added)
              = Len(addReport.files)
        /\ \A i \in 1..Len(addReport.files) :
              Resolves(addReport.files[i], formats) =>
                 \/ DocsOf(addReport.closure, addReport.files[i]) # {}
                 \/ DocsOf(addReport.added, addReport.files[i]) # {}
        /\ \A i \in 1..Len(addReport.added) :
              \E j \in 1..Len(documents) : documents[j] = addReport.added[i]

\* C8 as stated: a file is rejected exactly when neither its declared type nor
\* its extension resolves to pdf or xlsx.  Refuted by B.XLS, which is accepted.
C8_RejectsUnlessPdfXlsx == IntakeRejectsUnless(PdfXlsx)

\* C8 amended: a file is rejected exactly when neither its declared type nor
\* its extension resolves to pdf, xlsx or xls; a rejected file is counted as
\* skipped, apart from the duplicates, and the valid files of the batch are
\* still added.
C8_RejectsUnlessPdfExcel == IntakeRejectsUnless(PdfExcel)

\* [B.XLS, n.txt, r.bin] has been added: one file skipped, two documents
C8_Witness ==
    /\ addReport.shown
    /\ addReport.files = <<FileXls, FileTxt, FileBin>>
    /\ addReport.invalidCount = 1
    /\ addReport.duplicateCount = 0
    /\ Len(addReport.added) = 2
    /\ Len(documents) >= 2

\* C9: when the request fails (fetch rejects, or the status is not OK), the
\* step that handles it leaves aggregatedFormData and the documents as they
\* were (none becomes processed) and shows the error toast with its message.
C9_FailureIsOneUnit ==
    [][procReport'.resp.kind \in {"network", "http"} =>
          /\ aggregatedFormData' = aggregatedFormData
          /\ documents' = documents
          /\ processingToast'.kind = "error"
          /\ processingToast'.message # ""]_vars

\* a request has just failed with status 500 after an earlier one succeeded
C9_Witness ==
    /\ procReport.resp.kind = "http"
    /\ processingToast = Toast("error", "HTTP error! status: 500")
    /\ aggregatedFormData # << >>
    /\ documents # << >>

\* a is b with some elements left out (documents are told apart by their ids)
KeepsOrder(a, b) ==
    /\ \A i \in 1..Len(a) : \E j \in 1..Len(b) : b[j] = a[i]
    /\ \A i, j \in 1..Len(a) :
          i < j => \E k, l \in 1..Len(b) : k < l /\ b[k] = a[i] /\ b[l] = a[j]

FilesOf(docs) == [i \in 1..Len(docs) |-> docs[i].file]

\* C10: the documents stay in the order of their intake: a finished add takes
\* the accepted files in the order of the batch, addDocuments making them the
\* list and addMoreDocuments appending them; any other step but the write-back
\* of results leaves the remaining documents in their relative order;
\* processDocuments appends the files in the order of the state, gives the i-th
\* result to the i-th document of the request, and aggregates the results in
\* that order.
C10_OrderPreserved ==
    [][/\ addReport'.shown =>
             /\ \A i, j \in 1..Len(addReport'.added) :
                   i < j => \E k, l \in 1..Len(addReport'.files) :
                               /\ k < l
                               /\ addReport'.files[k] = addReport'.added[i].file
                               /\ addReport'.files[l] = addReport'.added[j].file
             /\ documents' =
                   IF addReport'.added = << >> THEN documents
                   ELSE IF addReport'.mode = "add" THEN addReport'.added
                   ELSE documents \o addReport'.added
       /\ (~addReport'.shown /\ procReport'.outcome # "success")
             => KeepsOrder(documents', documents)
       /\ Len(procOps') > Len(procOps)
             => procOps'[Len(procOps')].request = FilesOf(documents)
       /\ procReport'.outcome = "success" =>
             /\ FilesOf(documents') = procReport'.request
             /\ procReport'.resp.isArray =>
                   /\ \A i \in 1..Len(documents') :
                         documents'[i].rawApiData = procReport'.resp.data[i]
                   /\ aggregatedFormData' =
                         <<aggregateExtractedData(
                             SubSeq(procReport'.resp.data, 1, Len(documents')))>>
      ]_vars

\* two documents, added one after the other, have got their results: the
\* first one's bill-of-lading number is the record's
C10_Witness ==
    /\ procReport.outcome = "success"
    /\ procReport.resp.isArray
    /\ Len(documents) = 2
    /\ documents[1].file = FileA2 /\ documents[2].file = FileA
    /\ documents[1].rawApiData = DataB /\ documents[2].rawApiData = DataA
    /\ aggregatedFormData[1].billOfLadingNumber = TextB

\* C11: a call of processDocuments (the toast "Processing documents..." comes
\* up, or a request is added to those pending) issues exactly one request, and
\* that request carries the file of every document of the state, each once.
C11_OneJointRequest ==
    [][(\/ Len(procOps') > Len(procOps)
        \/ processingToast'.kind = "loading" /\ processingToast.kind # "loading")
       => /\ Len(procOps') = Len(procOps) + 1
          /\ SubSeq(procOps', 1, Len(procOps)) = procOps
          /\ LET request == procOps'[Len(procOps')].request
             IN  \E at \in [1..Len(documents) -> 1..Len(request)] :
                    /\ \A i \in 1..Len(documents) : request[at[i]] = documents[i].file
                    /\ \A i, j \in 1..Len(documents) : i # j => at[i] # at[j]
                    /\ \A k \in 1..Len(request) : \E i \in 1..Len(documents) : at[i] = k
      ]_vars

\* a request with the files of two documents is pending, one of the documents
\* having its results from an earlier request
C11_Witness ==
    /\ Len(procOps) = 1
    /\ Len(documents) = 2
    /\ Len(procOps[1].request) = 2
    /\ \E i \in 1..2 : documents[i].isProcessed
    /\ procOps[1].request = <<documents[1].file, documents[2].file>>

\* C12 as stated: every started processDocuments eventually ends, with
\* isProcessing false and a result or a reported failure, even when the server
\* never responds.  Refuted: the request stays pending for ever.
C12_ProcessingEnds ==
    (Len(procOps) > 0) ~> (procReport.outcome # "none" /\ ~isProcessing)

\* (key of ExtractedData, key of DocumentFormData) of the three numeric fields
NumFields ==
    {<<"line_items_count", "lineItemsCount">>,
     <<"average_gross_weight", "averageGrossWeight">>,
     <<"average_price", "averagePrice">>}

\* the fields of the result that are empty exactly when no FieldSet (the null
\* results left aside) has a value for them: a non-empty string for a field of
\* textFields, a number for a numeric field
EmptyIffNoValue(textFields) ==
    aggregated # << >> =>
        /\ \A f \in textFields :
              aggregated[1][f[2]] = EmptyStr
                 <=> ~\E i \in DataIdx(extractedDataArray) :
                        Truthy(extractedDataArray[i][f[1]])
        /\ \A f \in NumFields :
              aggregated[1][f[2]] = EmptyStr
                 <=> ~\E i \in DataIdx(extractedDataArray) :
                        Present(extractedDataArray[i][f[1]])

\* C13 as stated: aggregateExtractedData passes over the null results, and each
\* of the eight fields of its result is empty if and only if no FieldSet has a
\* value for it.  Refuted by the date: [null, {date: "TBD"}] gives no date.
C13_EmptyIffNoValue == EmptyIffNoValue(TextFields \cup {<<"date", "date">>})

\* (key of ExtractedData, key of DocumentFormData) of the five string fields
StringFields == TextFields \cup {<<"date", "date">>}

\* C14: every string field of the ExtractedData that transformFormDataToApiData
\* returns is null or a non-empty string, never "": null when the field of the
\* form is empty, and the form's string otherwise.
C14_NeverEmptyString ==
    apiData # << >> =>
        \A f \in StringFields :
            LET x == apiData[1].result[f[1]]
                s == apiData[1].formData[f[2]]
            IN  /\ x = NullStr \/ (x.k = "string" /\ x.v # EmptyStr)
                /\ x = NullStr <=> s = EmptyStr
                /\ x # NullStr => x.v = s

\* a form with an empty field and a non-empty one has been converted
C14_Witness ==
    /\ apiData # << >>
    /\ apiData[1].formData.billOfLadingNumber = EmptyStr
    /\ apiData[1].result.bill_of_lading_number = NullStr
    /\ apiData[1].formData.containerNumber = TextA
    /\ apiData[1].result.container_number = Str(TextA)
    /\ apiData[1].formData.date = EmptyStr
    /\ apiData[1].result.date = NullStr

\* an array in the opposite order
Reversed(arr) == [i \in 1..Len(arr) |-> arr[Len(arr) + 1 - i]]

Contributor(arr, key) ==
    LET S == {i \in DataIdx(arr) : Truthy(arr[i][key])}
    IN  IF S = {} THEN 0 ELSE Least(S)

\* C16 as stated: the record identifies, for each field with a value, the
\* FieldSet that contributed it; so two arrays that give the same record have
\* the same contributor for each field.  Refuted: the record is eight strings,
\* and [{bol: "A"}, null] and [null, {bol: "A"}] give the same one.
C16_RecordNamesSource ==
    aggregated # << >> =>
        LET rev == Reversed(extractedDataArray)
        IN  aggregateExtractedData(rev) = aggregated[1] =>
               \A f \in StringFields :
                   Contributor(rev, f[1]) = Contributor(extractedDataArray, f[1])

\* the places in the batch of a finished add operation of the files it skipped
\* as duplicates: supported files that the documents it was called with, or an
\* earlier supported file of the batch, have the name, size and lastModified of
SkippedAsDuplicate ==
    {i \in 1..Len(addReport.files) :
        /\ Resolves(addReport.files[i], PdfExcel)
        /\ \/ DocsOf(addReport.closure, addReport.files[i]) # {}
           \/ \E j \in 1..(i - 1) :
                 /\ Resolves(addReport.files[j], PdfExcel)
                 /\ addReport.files[j].name = addReport.files[i].name
                 /\ addReport.files[j].size = addReport.files[i].size
                 /\ addReport.files[j].lastModified = addReport.files[i].lastModified}

\* C17 as stated: when addDocuments or addMoreDocuments has finished, the state
\* holds a document of every file that was skipped as a duplicate.  Refuted by
\* addDocuments([a2, a]) next to the document of a: a is skipped, and the list
\* is replaced by [a2].
C17_DuplicateKept ==
    addReport.shown =>
        \A i \in SkippedAsDuplicate : DocsOf(documents, addReport.files[i]) # {}

\* C18: aggregatedFormData changes only in the step of processDocuments that
\* stores the results of a successful request, in updateAggregatedFormData and
\* in resetDocuments; the steps of addDocuments, addMoreDocuments,
\* removeDocument, goToDocument, goToPrevious and goToNext, the start of
\* processDocuments and its failure leave it as it is.
C18_RecordFrame ==
    [][/\ aggregatedFormData' # aggregatedFormData
             => \/ called' = "processDocuments" /\ procReport'.outcome = "success"
                \/ called' = "updateAggregatedFormData"
                \/ called' = "resetDocuments"
       /\ (\/ called' \in {"addDocuments", "addMoreDocuments", "removeDocument",
                           "goToDocument", "goToPrevious", "goToNext"}
           \/ called' = "processDocuments" /\ procReport'.outcome # "success")
             => aggregatedFormData' = aggregatedFormData
      ]_vars

\* a document has been removed after the record was made: the record is there
C18_Witness ==
    /\ called = "removeDocument"
    /\ aggregatedFormData # << >>
    /\ \A i \in 1..Len(documents) : documents[i].isProcessed

\* C19 as stated: the step of processDocuments that stores the results of a
\* successful request leaves the number and the order of the documents, and
\* the id, file, stats and documentUrl of each, as they were, and changes
\* rawApiData and isProcessed alone.  Refuted when the list has changed while
\* the request was pending: the list of the time of the call is put back.
C19_DocumentsFrame ==
    [][procReport'.outcome = "success" =>
          /\ Len(documents') = Len(documents)
          /\ \A i \in 1..Len(documents) :
                /\ documents'[i].id = documents[i].id
                /\ documents'[i].file = documents[i].file
                /\ documents'[i].stats = documents[i].stats
                /\ documents'[i].documentUrl = documents[i].documentUrl
      ]_vars

\* a numeral without its leading "-"
Unsigned(s) == IF s # << >> /\ s[1] = "-" THEN Tail(s) ELSE s

\* [-]d+
IsIntNumeral(s) == AllDigits(Unsigned(s))

\* the place of the "." in s, 0 when there is none
DotAt(s) ==
    IF \E i \in 1..Len(s) : s[i] = "."
    THEN CHOOSE i \in 1..Len(s) : s[i] = "." /\ \A j \in 1..(i - 1) : s[j] # "."
    ELSE 0

\* [-]d+ or [-]d+.d, [-]d+.dd, [-]d+.ddd
IsDecNumeral(s) ==
    LET u == Unsigned(s)
    IN  \/ AllDigits(u)
        \/ /\ DotAt(u) > 1
           /\ Len(u) - DotAt(u) \in 1..3
           /\ AllDigits(SubSeq(u, 1, DotAt(u) - 1))
           /\ AllDigits(SubSeq(u, DotAt(u) + 1, Len(u)))

\* the thousandths a decimal numeral denotes
NumeralMilli(s) ==
    LET u    == Unsigned(s)
        d    == DotAt(u)
        int  == IF d = 0 THEN u ELSE SubSeq(u, 1, d - 1)
        frac == IF d = 0 THEN << >> ELSE SubSeq(u, d + 1, Len(u))
        pad  == frac \o SubSeq(<<"0", "0", "0">>, 1, 3 - Len(frac))
        m    == 1000 * DigitsValue(int) + DigitsValue(pad)
    IN  IF s[1] = "-" THEN 0 - m ELSE m

\* a non-empty string that does not start, blanks and a sign aside, with a
\* digit or with "." and a digit: no number can be read from it
Unparseable(s) ==
    LET t == SelectSeq(s, LAMBDA c : c # " ")
        u == IF t # << >> /\ t[1] \in {"-", "+"} THEN Tail(t) ELSE t
    IN  /\ s # << >>
        /\ ~(u # << >> /\ IsDigit(u[1]))
        /\ ~(Len(u) >= 2 /\ u[1] = "." /\ IsDigit(u[2]))

\* C20 as stated: the result of transformFormDataToApiData has all eight keys;
\* a form string that is a numeral becomes the number it denotes (an integer
\* for the count, a decimal for weight and price); a form string no number can
\* be read from becomes null.  Refuted by "abc", which becomes NaN.
C20_NumericCoercion ==
    apiData # << >> =>
        LET fd == apiData[1].formData
            r  == apiData[1].result
        IN  /\ \A f \in StringFields \cup NumFields : r[f[1]].k # "undefined"
            /\ IsIntNumeral(fd.lineItemsCount)
                  => r.line_items_count = Num(IF fd.lineItemsCount[1] = "-"
                                              THEN 0 - DigitsValue(Unsigned(fd.lineItemsCount))
                                              ELSE DigitsValue(fd.lineItemsCount))
            /\ \A f \in NumFields \ {<<"line_items_count", "lineItemsCount">>} :
                  IsDecNumeral(fd[f[2]]) => r[f[1]] = Num(NumeralMilli(fd[f[2]]))
            /\ \A f \in NumFields : Unparseable(fd[f[2]]) => r[f[1]] = NullNum

\* C22 as stated: currentIndex is never negative and, when there are
\* documents, less than their number.  Refuted by goToNext() with no
\* documents: Math.min(-1, currentIndex + 1) is -1.
C22_IndexInRange ==
    /\ currentIndex >= 0
    /\ documents # << >> => currentIndex < Len(documents)

Ids(docs) == {docs[i].id : i \in 1..Len(docs)}

\* C23 as stated: the step that stores the results of a request leaves in the
\* list the documents that are there, and no others: one removed (or reset
\* away) during the request is not put back, one added during it is not
\* dropped.  Refuted: the list of the time of the call is stored.
C23_WriteBackKeepsList ==
    [][procReport'.outcome = "success" => Ids(documents') = Ids(documents)]_vars

\* C24 as stated: isProcessing is true whenever a request is pending.  Refuted
\* when processDocuments is called twice and the first request is answered
\* (and by resetDocuments during a request).
C24_ProcessingWhilePending == Len(procOps) > 0 => isProcessing

\* C25 as stated: no document of the state has a documentUrl that was handed
\* to URL.revokeObjectURL.  Refuted by removeDocument during a request, whose
\* results put the document back.
C25_NoRevokedUrlInState ==
    \A i \in 1..Len(documents) : documents[i].documentUrl \notin revokedUrls

\* the object URLs of documents made by add operations that have not finished
PendingUrls ==
    UNION {{addOps[k].validFiles[i].documentUrl : i \in 1..Len(addOps[k].validFiles)} :
             k \in 1..Len(addOps)}

\* C26 as stated: every object URL created for a document that has been in
\* the state and is there no more has been revoked.  Refuted by addDocuments
\* next to documents: the list is replaced and nothing is revoked.
C26_NoUrlLeak ==
    \A url \in 1..nextId :
        \/ \E i \in 1..Len(documents) : documents[i].documentUrl = url
        \/ url \in revokedUrls
        \/ url \in PendingUrls

\* ------------------------------------------------------- App: handleFileSelect

\* name.split(".").pop(): what follows the last ".", the whole name without one
RECURSIVE SplitPop(_)
SplitPop(name) ==
    IF \E i \in 1..Len(name) : name[i] = "."
    THEN SplitPop(Tail(name))
    ELSE name

\* ["pdf", "xlsx", "xls"].includes(extension || "")
IsSupportedExtension(file) ==
    SplitPop(ToLowerCase(file.name)) \in
        {<<"p", "d", "f">>, <<"x", "l", "s", "x">>, <<"x", "l", "s">>}

\* a file whose name is "pdf"
FilePdfName == File(<<"p", "d", "f">>, 4, 1, "")

SelectableFiles == {FileA, FileXls, FileTxt, FileBin, FilePdfName}

Selections == UNION {[1..n -> SelectableFiles] : n \in 0..MaxSelected}

setError(st, error) == [st EXCEPT !.error = error]

setFiles(st, files) == [st EXCEPT !.files = files]

\* handleFileSelect(selectedFiles): its setState calls, one after the other
handleFileSelect(selectedFiles) ==
    /\ LET validFiles == SelectSeq(selectedFiles, IsSupportedExtension)
           s1 == IF Len(validFiles) # Len(selectedFiles)
                 THEN setError(app, IgnoredMessage) ELSE app
           s2 == setFiles(s1, validFiles)
           s3 == setError(s2, NullStr)
       IN  app' = [s3 EXCEPT !.selectedFiles = selectedFiles]
    /\ UNCHANGED <<viewer, preview, storage, shipmentForm>>
    /\ UNCHANGED dtVars
    /\ UNCHANGED hookVars

AppNext == \E selectedFiles \in Selections : handleFileSelect(selectedFiles)

SpecApp == Init /\ [][AppNext]_vars

\* C21 as stated: when handleFileSelect has been given a file with an
\* unsupported extension, the files with supported extensions are selected and
\* the error says that some files were ignored.  Refuted: setError(null) ends
\* the handler, so the error is null.
C21_IgnoredFilesReported ==
    (\E i \in 1..Len(app.selectedFiles) :
        Extension(app.selectedFiles[i].name) \notin PdfExcel.exts)
    => /\ \A i \in 1..Len(app.selectedFiles) :
             Extension(app.selectedFiles[i].name) \in PdfExcel.exts
                => \E j \in 1..Len(app.files) : app.files[j] = app.selectedFiles[i]
       /\ app.error = IgnoredMessage

\* ------------------------------------- DocumentViewer / DocumentViewerSimple

\* setCurrentDocIndex(index) and the effect on [currentDocIndex, documentIds]
setCurrentDocIndex(index) ==
    /\ viewer.loads < MaxLoads
    /\ viewer' = loadDocument([viewer EXCEPT !.currentDocIndex = index],
                              documentIds[index + 1])
    /\ UNCHANGED <<app, preview, storage, shipmentForm>>
    /\ UNCHANGED dtVars
    /\ UNCHANGED hookVars

goToPrevDocument ==
    /\ viewer.currentDocIndex > 0
    /\ setCurrentDocIndex(viewer.currentDocIndex - 1)

goToNextDocument ==
    /\ viewer.currentDocIndex < Len(documentIds) - 1
    /\ setCurrentDocIndex(viewer.currentDocIndex + 1)

\* the k-th pending axios.get settles: the rest of loadDocument (response.data
\* is named by the id asked for)
LoadSettles(k, ok) ==
    /\ k \in 1..Len(viewer.pending)
    /\ viewer' =
          [(IF ok
            THEN [viewer EXCEPT !.documentData = Str(viewer.pending[k]),
                                !.pageNumber = 1]
            ELSE [viewer EXCEPT !.error = Str("Failed to load document")])
           EXCEPT !.loading = FALSE, !.pending = RemoveAt(viewer.pending, k)]
    /\ UNCHANGED <<app, preview, storage, shipmentForm>>
    /\ UNCHANGED dtVars
    /\ UNCHANGED hookVars

ViewerNext ==
    \/ goToPrevDocument
    \/ goToNextDocument
    \/ \E k \in 1..Len(viewer.pending), ok \in BOOLEAN : LoadSettles(k, ok)

SpecViewer == Init /\ [][ViewerNext]_vars

\* C27 as stated: whenever no load is pending and none failed, documentData is
\* the response for documentIds[currentDocIndex].  Refuted when the user goes
\* to the next document during a load and the two responses come in the
\* opposite order.
C27_ShowsCurrentDocument ==
    (viewer.pending = << >> /\ viewer.error = NullStr)
    => viewer.documentData = Str(documentIds[viewer.currentDocIndex + 1])

\* ------------------------------------------------------ ExcelPreview (web)

\* workbook.SheetNames.map(sheetName => ({ name: sheetName, html }))
sheetsData(file) ==
    [i \in 1..Len(file.SheetNames) |->
        [name |-> file.SheetNames[i], html |-> <<file.name, file.SheetNames[i]>>]]

\* the cleanup of the effect: isCancelled = true in the closure of the load
\* started last (the earlier ones are cancelled already)
Cleanup(loads) == [i \in 1..Len(loads) |-> [loads[i] EXCEPT !.isCancelled = TRUE]]

NeverCancelled(load) == FALSE

IsCancelled(load) == load.isCancelled

\* the parent renders ExcelPreview with another file: cleanup, then the effect
ChangeFile(file) ==
    /\ preview.mounted
    /\ preview.files < MaxFiles
    /\ file # preview.file
    /\ preview' = loadExcelFile([preview EXCEPT !.file = file, !.loads = Cleanup(@),
                                                !.settled = << >>],
                                file)
    /\ UNCHANGED <<app, viewer, storage, shipmentForm>>
    /\ UNCHANGED dtVars
    /\ UNCHANGED hookVars

Unmount ==
    /\ preview.mounted
    /\ preview' = [preview EXCEPT !.mounted = FALSE, !.loads = Cleanup(@),
                                  !.settled = << >>]
    /\ UNCHANGED <<app, viewer, storage, shipmentForm>>
    /\ UNCHANGED dtVars
    /\ UNCHANGED hookVars

\* the k-th pending file.arrayBuffer() resolves: the rest of loadExcelFile
LoadExcelSettles(k) ==
    /\ k \in 1..Len(preview.loads)
    /\ LET load == preview.loads[k]
           p1 == IF load.file.readable
                 THEN IF ~IsCancelled(load)
                      THEN [preview EXCEPT !.sheets = sheetsData(load.file),
                                           !.currentSheetIndex = 0]
                      ELSE preview
                 ELSE IF ~IsCancelled(load)
                      THEN [preview EXCEPT !.error = Str("Failed to load Excel file")]
                      ELSE preview
           p2 == IF ~IsCancelled(load) THEN [p1 EXCEPT !.loading = FALSE] ELSE p1
       IN  preview' = [p2 EXCEPT !.loads = RemoveAt(preview.loads, k),
                                 !.settled = <<load>>]
    /\ UNCHANGED <<app, viewer, storage, shipmentForm>>
    /\ UNCHANGED dtVars
    /\ UNCHANGED hookVars

\* the render reaches the sheet table
SheetShown ==
    /\ preview.mounted
    /\ ~preview.loading
    /\ preview.error = NullStr
    /\ Len(preview.sheets) # 0

\* the Previous / Next buttons, rendered when more than one sheet is shown
PreviousSheet ==
    /\ SheetShown
    /\ Len(preview.sheets) > 1
    /\ preview.currentSheetIndex # 0
    /\ preview' = [preview EXCEPT !.currentSheetIndex = Max(0, @ - 1),
                                  !.settled = << >>]
    /\ UNCHANGED <<app, viewer, storage, shipmentForm>>
    /\ UNCHANGED dtVars
    /\ UNCHANGED hookVars

NextSheet ==
    /\ SheetShown
    /\ Len(preview.sheets) > 1
    /\ preview.currentSheetIndex # Len(preview.sheets) - 1
    /\ preview' = [preview EXCEPT
                      !.currentSheetIndex = Min(Len(preview.sheets) - 1, @ + 1),
                      !.settled = << >>]
    /\ UNCHANGED <<app, viewer, storage, shipmentForm>>
    /\ UNCHANGED dtVars
    /\ UNCHANGED hookVars

PreviewNext ==
    \/ \E file \in Workbooks : ChangeFile(file)
    \/ Unmount
    \/ \E k \in 1..Len(preview.loads) : LoadExcelSettles(k)
    \/ PreviousSheet
    \/ NextSheet

SpecPreview == Init /\ [][PreviewNext]_vars

\* what a load can update
Display(p) == <<p.sheets, p.currentSheetIndex, p.error, p.loading>>

\* C28: a load whose file prop has been replaced, or whose component has
\* unmounted, changes none of sheets, currentSheetIndex, error and loading when
\* it settles; and a sheet that is shown is a sheet of the current file, at an
\* index within 0 .. sheets.length - 1.
C28_StaleLoadSilent ==
    /\ [](SheetShown => /\ preview.sheets = sheetsData(preview.file)
                        /\ preview.currentSheetIndex \in 0..(Len(preview.sheets) - 1))
    /\ [][(preview'.settled # << >> /\ preview'.settled[1].isCancelled)
          => Display(preview') = Display(preview)]_vars

\* a load of a previous file settles while the sheets of the current file are shown
C28_Witness ==
    /\ SheetShown
    /\ preview.settled # << >>
    /\ preview.settled[1].isCancelled
    /\ preview.settled[1].file # preview.file
    /\ preview.settled[1].file.readable
    /\ preview.sheets = sheetsData(preview.file)

\* --------------------------------------------------------- App: saveChanges

\* localStorage: a function from keys to strings
getItem(ls, key) == IF key \in DOMAIN ls THEN <<ls[key]>> ELSE << >>
setItem(ls, key, value) == [k \in DOMAIN ls \cup {key} |-> IF k = key THEN value ELSE ls[k]]
removeItem(ls, key) == [k \in DOMAIN ls \ {key} |-> ls[k]]

\* JSON text of a value, and the value of a JSON text
JSONstringify(value) == [json |-> value]
JSONparse(text) == text.json

\* new Date().toISOString() at clock value t
toISOString(t) == [iso |-> t]

\* .replace(/\s+/g, '_'): each run of blanks becomes one underscore
RECURSIVE ReplaceBlanks(_)
ReplaceBlanks(s) ==
    IF s = << >> THEN << >>
    ELSE IF Head(s) = " "
         THEN IF Len(s) > 1 /\ s[2] = " " THEN ReplaceBlanks(Tail(s))
              ELSE <<"_">> \o ReplaceBlanks(Tail(s))
         ELSE <<Head(s)>> \o ReplaceBlanks(Tail(s))

\* `document_${document_type.replace(/\s+/g, '_').toLowerCase()}_${Date.now()}`
SaveKey(document_type, t) ==
    <<"document", ToLowerCase(ReplaceBlanks(document_type)), t>>

SavedDocumentsKey == <<"saved_documents">>

\* Keep only the last 10 saved documents
KeepLast == 10

\* processFiles / startOver: setResult, with setFormData for a ProcessResult
setResult(r) ==
    /\ r # storage.result
    /\ storage' = [storage EXCEPT
                      !.result = r,
                      !.formData = IF r.kind = "result"
                                   THEN r.structured_data.extracted_fields
                                   ELSE IF r.kind = "null" THEN << >> ELSE @,
                      !.alert = ""]
    /\ UNCHANGED <<app, viewer, preview, shipmentForm>>
    /\ UNCHANGED dtVars
    /\ UNCHANGED hookVars

\* saveChanges, with Date.now() read as t (localStorage has room: setItem does
\* not throw)
saveChangesAt(t) ==
    IF storage.result.kind # "result"
    THEN storage' = [storage EXCEPT !.alert = "No data to save"]
    ELSE LET sd == storage.result.structured_data
             saveData == [document_type |-> sd.document_type,
                          extracted_fields |-> storage.formData,
                          original_fields |-> sd.extracted_fields,
                          saved_at |-> toISOString(t),
                          processing_status |-> storage.result.status]
             saveKey == SaveKey(sd.document_type, t)
             ls1 == setItem(storage.localStorage, saveKey, JSONstringify(saveData))
             stored == getItem(ls1, SavedDocumentsKey)
             savedDocuments ==
                 <<[key |-> saveKey, document_type |-> sd.document_type,
                    saved_at |-> saveData.saved_at,
                    field_count |-> Cardinality(DOMAIN storage.formData)]>>
                 \o (IF stored = << >> THEN << >> ELSE JSONparse(stored[1]))
             over == Len(savedDocuments) > KeepLast
             ls2 == IF over THEN removeItem(ls1, savedDocuments[KeepLast + 1].key) ELSE ls1
             kept == IF over THEN SubSeq(savedDocuments, 1, KeepLast) ELSE savedDocuments
         IN  storage' = [storage EXCEPT
                            !.localStorage = setItem(ls2, SavedDocumentsKey, JSONstringify(kept)),
                            !.saveStatus = "saved",
                            !.timers = @ + 1,
                            !.saves = @ + 1,
                            !.now = t,
                            !.alert = ""]

\* a click on Save Changes; the clock has not moved since the last reading of
\* Date.now(), or it has
saveChanges ==
    /\ storage.saveStatus # "saving"
    /\ storage.saves < MaxSaves
    /\ \E t \in {storage.now, storage.now + 1} : saveChangesAt(t)
    /\ UNCHANGED <<app, viewer, preview, shipmentForm>>
    /\ UNCHANGED dtVars
    /\ UNCHANGED hookVars

\* setTimeout(() => setSaveStatus('idle'), 3000)
SaveStatusTimeout ==
    /\ storage.timers > 0
    /\ storage' = [storage EXCEPT !.saveStatus = "idle", !.timers = @ - 1]
    /\ UNCHANGED <<app, viewer, preview, shipmentForm>>
    /\ UNCHANGED dtVars
    /\ UNCHANGED hookVars

StorageNext ==
    \/ \E r \in Results : setResult(r)
    \/ saveChanges
    \/ SaveStatusTimeout

SpecStorage == Init /\ [][StorageNext]_vars

\* the saved_documents list in localStorage
SavedList ==
    IF SavedDocumentsKey \in DOMAIN storage.localStorage
    THEN JSONparse(storage.localStorage[SavedDocumentsKey])
    ELSE << >>

\* C29 as stated: the list has at most ten entries, newest first, and every
\* listed key has its item in localStorage.  Refuted when two saves read the
\* same Date.now(): both entries carry one key, and evicting the older entry
\* removes the item the newer entry still lists.
C29_ListedKeysStored ==
    /\ Len(SavedList) <= KeepLast
    /\ \A i \in 1..Len(SavedList) :
          /\ SavedList[i].key \in DOMAIN storage.localStorage
          /\ \A j \in (i + 1)..Len(SavedList) :
                SavedList[j].saved_at.iso <= SavedList[i].saved_at.iso

\* ------------------------------------------------------------ ShipmentForm

\* values typed into the text input and the number input
ContainerInputs == {Str(EmptyStr), Str(<<"C", "2">>)}
CountInputs == {NullNum, Num(3)}

\* the Edit button
StartEditing ==
    /\ ~shipmentForm.isEditing
    /\ shipmentForm' = [shipmentForm EXCEPT !.isEditing = TRUE, !.onUpdate = << >>,
                                            !.step = "edit"]
    /\ UNCHANGED <<app, viewer, preview, storage>>
    /\ UNCHANGED dtVars
    /\ UNCHANGED hookVars

\* handleInputChange(field, value): a new object with the field replaced
handleInputChange(field, value) ==
    /\ shipmentForm.isEditing
    /\ shipmentForm.edits < MaxEdits
    /\ shipmentForm' =
          [shipmentForm EXCEPT
              !.formData = [[@ EXCEPT ![field] = value]
                            EXCEPT !.id = shipmentForm.edits + 1],
              !.edits = @ + 1, !.onUpdate = << >>, !.step = "input"]
    /\ UNCHANGED <<app, viewer, preview, storage>>
    /\ UNCHANGED dtVars
    /\ UNCHANGED hookVars

\* handleSave up to await axios.post: the formData of this render is posted
handleSave ==
    /\ shipmentForm.isEditing
    /\ ~shipmentForm.isSaving
    /\ shipmentForm' = [shipmentForm EXCEPT !.isSaving = TRUE,
                                            !.posted = <<shipmentForm.formData>>,
                                            !.onUpdate = << >>, !.step = "save"]
    /\ UNCHANGED <<app, viewer, preview, storage>>
    /\ UNCHANGED dtVars
    /\ UNCHANGED hookVars

\* the try block after the await: onUpdate(formData) is setShipmentData in the
\* parent, and the effect on [data] runs when the parent's object changed
AfterPost(f) ==
    [f EXCEPT !.data = f.posted[1],
              !.formData = IF f.posted[1].id # f.data.id THEN f.posted[1] ELSE @,
              !.onUpdate = <<f.posted[1]>>,
              !.isEditing = FALSE,
              !.alert = "Data saved successfully!",
              !.step = "saved"]

AfterCatchLeavesEditing(f) ==
    [f EXCEPT !.alert = "Failed to save data", !.onUpdate = << >>,
              !.isEditing = FALSE, !.step = "save failed"]

\* the catch block
AfterCatch(f) ==
    [f EXCEPT !.alert = "Failed to save data", !.onUpdate = << >>,
              !.step = "save failed"]

\* axios.post settles: the rest of handleSave
SaveSettles(ok) ==
    /\ shipmentForm.posted # << >>
    /\ shipmentForm' =
          [(IF ok THEN AfterPost(shipmentForm) ELSE AfterCatch(shipmentForm))
           EXCEPT !.isSaving = FALSE, !.posted = << >>]
    /\ UNCHANGED <<app, viewer, preview, storage>>
    /\ UNCHANGED dtVars
    /\ UNCHANGED hookVars

\* the Cancel button
Cancel ==
    /\ shipmentForm.isEditing
    /\ shipmentForm' = [shipmentForm EXCEPT !.formData = shipmentForm.data,
                                            !.isEditing = FALSE,
                                            !.onUpdate = << >>, !.step = "cancel"]
    /\ UNCHANGED <<app, viewer, preview, storage>>
    /\ UNCHANGED dtVars
    /\ UNCHANGED hookVars

ShipmentFormNext ==
    \/ StartEditing
    \/ \E value \in ContainerInputs : handleInputChange("container_number", value)
    \/ \E value \in CountInputs : handleInputChange("line_items_count", value)
    \/ handleSave
    \/ \E ok \in BOOLEAN : SaveSettles(ok)
    \/ Cancel

SpecShipmentForm == Init /\ [][ShipmentFormNext]_vars

\* C30: the parent's data changes only in the step of a save that succeeded,
\* to the data that was posted; a save that failed calls no onUpdate, leaves
\* isEditing and formData as they are and sets isSaving to false; Cancel calls
\* no onUpdate, sets formData to the parent's data and leaves editing mode.
C30_OnlySavedEditsReachParent ==
    [][/\ (shipmentForm'.data # shipmentForm.data
             => /\ shipmentForm'.step = "saved"
                /\ shipmentForm'.onUpdate = shipmentForm.posted
                /\ shipmentForm'.data = shipmentForm.posted[1])
       /\ (shipmentForm'.onUpdate # << >> => shipmentForm'.step = "saved")
       /\ (shipmentForm'.step = "save failed"
             => /\ shipmentForm'.data = shipmentForm.data
                /\ shipmentForm'.isEditing = shipmentForm.isEditing
                /\ shipmentForm'.formData = shipmentForm.formData
                /\ ~shipmentForm'.isSaving)
       /\ (shipmentForm'.step = "cancel"
             => /\ shipmentForm'.data = shipmentForm.data
                /\ shipmentForm'.formData = shipmentForm.data
                /\ ~shipmentForm'.isEditing)]_vars

\* a save of edited data has just failed: the form is still being edited and
\* differs from the parent's data
C30_Witness ==
    /\ shipmentForm.step = "save failed"
    /\ shipmentForm.isEditing
    /\ ~shipmentForm.isSaving
    /\ shipmentForm.formData.container_number # shipmentForm.data.container_number
    /\ shipmentForm.onUpdate = << >>

====
